---------------------------- MODULE Spec2Model ----------------------------
(***************************************************************************)
(* A model of the heart-disease management dashboard: the Streamlit main   *)
(* script app.py, the pages under pages/, and the storage functions of     *)
(* utils/database.py.  One action is one script run of one browser         *)
(* session; the stores are the local SQLite file and the PostgreSQL        *)
(* server that get_connection chooses between.                             *)
(***************************************************************************)
EXTENDS Integers, Sequences, FiniteSets, TLC

VARIABLES
    users,          \* SQLite table users: sequence of [id, username, password]
    liteTables,     \* names of the tables that exist in the SQLite file
    pgTables,       \* names of the tables that exist in PostgreSQL
    lite,           \* SQLite record tables: [table name -> sequence of rows]
    pg,             \* PostgreSQL record tables: [table name -> sequence of rows]
    session,        \* st.session_state of every browser session
    clock,          \* the wall clock, in days
    bpIn, bpOut,    \* classify_bp harness: the arguments and the returned dict
    rtIn, rtOut,    \* process_user_input harness: the input and the branch taken
    dbOut,          \* utils/database harness: the last call and what it returned
    chatOut,        \* assistant harness: the last input processed and the reply
    histOut         \* chat history harness: what the last load returned

vars == <<users, liteTables, pgTables, lite, pg, session, clock,
          bpIn, bpOut, rtIn, rtOut, dbOut, chatOut, histOut>>

appVars == <<users, liteTables, pgTables, lite, pg, session, clock>>

-----------------------------------------------------------------------------
(* Bounds of the model *)

MaxSys == 200
MaxDia == 140
MaxWords == 2
MaxUsers == 2
MaxRows == 3
MaxHist == 3
MaxSaved == 2
MaxDays == 8
MaxStored == 22
MaxOther == 1

-----------------------------------------------------------------------------
(* Python values *)

\* None in an integer-valued slot: no id, reading or count is negative
None == -1
\* None in a string-valued slot
NoneStr == "<None>"

Min(a, b) == IF a <= b THEN a ELSE b

-----------------------------------------------------------------------------
(* Text: a Python str is a sequence of one-character strings *)

Digits == <<"0", "1", "2", "3", "4", "5", "6", "7", "8", "9">>
UpperChars == <<"A", "B", "C", "D", "E", "F", "G", "H", "I", "J", "K", "L", "M",
                "N", "O", "P", "Q", "R", "S", "T", "U", "V", "W", "X", "Y", "Z">>
LowerChars == <<"a", "b", "c", "d", "e", "f", "g", "h", "i", "j", "k", "l", "m",
                "n", "o", "p", "q", "r", "s", "t", "u", "v", "w", "x", "y", "z">>

IsDigit(c) == \E i \in 1..Len(Digits) : Digits[i] = c
DigitVal(c) == (CHOOSE i \in 1..Len(Digits) : Digits[i] = c) - 1
IsSpace(c) == c \in {" ", "\t", "\n", "\r"}

\* str.lower() of one character
LowerChar(c) ==
    IF \E i \in 1..Len(UpperChars) : UpperChars[i] = c
    THEN LowerChars[CHOOSE i \in 1..Len(UpperChars) : UpperChars[i] = c]
    ELSE c

\* str.lower()
lower(s) == [i \in 1..Len(s) |-> LowerChar(s[i])]

\* s[i:].startswith(w), i counted from 1
StartsAt(s, i, w) ==
    /\ i >= 1
    /\ i + Len(w) - 1 <= Len(s)
    /\ \A k \in 1..Len(w) : s[i + k - 1] = w[k]

\* w in s
Contains(s, w) == \E i \in 1..(Len(s) + 1) : StartsAt(s, i, w)

\* int(s) of a digit string
RECURSIVE int(_)
int(s) ==
    IF Len(s) = 0 THEN 0
    ELSE 10 * int(SubSeq(s, 1, Len(s) - 1)) + DigitVal(s[Len(s)])

\* str(n) of an integer n >= 0, and str(None)
RECURSIVE StrNat(_)
StrNat(n) ==
    IF n < 10 THEN <<Digits[n + 1]>>
    ELSE StrNat(n \div 10) \o <<Digits[(n % 10) + 1]>>

\* the first index >= i of s that holds no white space (\s* is greedy)
RECURSIVE SkipSpace(_, _)
SkipSpace(s, i) ==
    IF i <= Len(s) /\ IsSpace(s[i]) THEN SkipSpace(s, i + 1) ELSE i

\* the first index >= i of s that holds no digit (\d+ is greedy)
RECURSIVE SkipDigits(_, _)
SkipDigits(s, i) ==
    IF i <= Len(s) /\ IsDigit(s[i]) THEN SkipDigits(s, i + 1) ELSE i

AllDigits(s, i, n) ==
    /\ i + n - 1 <= Len(s)
    /\ \A k \in i..(i + n - 1) : IsDigit(s[k])

\* str(v) of an integer or None
str(v) == IF v = None THEN <<"N", "o", "n", "e">> ELSE StrNat(v)

-----------------------------------------------------------------------------
(* pages/3_BP_Monitoring.py: classify_bp *)

Categories == <<"Normal", "Elevated", "High BP - Stage 1", "High BP - Stage 2",
                "Hypertensive Crisis">>

\* classify_bp with the last two bands exchanged
classify_bp_swapped(systolic, diastolic) ==
    IF systolic < 120 /\ diastolic < 80
    THEN [category |-> "Normal", color |-> "success"]
    ELSE IF systolic < 130 /\ diastolic < 80
    THEN [category |-> "Elevated", color |-> "warning"]
    ELSE IF systolic < 140 \/ diastolic < 90
    THEN [category |-> "High BP - Stage 1", color |-> "warning"]
    ELSE IF systolic < 180 /\ diastolic < 120
    THEN [category |-> "Hypertensive Crisis", color |-> "error"]
    ELSE [category |-> "High BP - Stage 2", color |-> "error"]

classify_bp(systolic, diastolic) ==
    IF systolic < 120 /\ diastolic < 80
    THEN [category |-> "Normal", color |-> "success"]
    ELSE IF systolic < 130 /\ diastolic < 80
    THEN [category |-> "Elevated", color |-> "warning"]
    ELSE IF systolic < 140 \/ diastolic < 90
    THEN [category |-> "High BP - Stage 1", color |-> "warning"]
    ELSE IF systolic < 180 /\ diastolic < 120
    THEN [category |-> "High BP - Stage 2", color |-> "error"]
    ELSE [category |-> "Hypertensive Crisis", color |-> "error"]

-----------------------------------------------------------------------------
(* pages/5_Health_Assistant.py: the regular expressions and the router *)

NoMatch == [matched |-> FALSE]

\* the alternation (?:/|over) at index j: the index after it, or 0
SepEnd(s, j) ==
    IF StartsAt(s, j, <<"/">>) THEN j + 1
    ELSE IF StartsAt(s, j, <<"o", "v", "e", "r">>) THEN j + 4
    ELSE 0

\* (\d{2,3})\s*(?:/|over)\s*(\d{2,3}) anchored at index i with a first group
\* of n1 digits: the index where the second group starts, or 0
BpTail(s, i, n1) ==
    IF ~AllDigits(s, i, n1) THEN 0
    ELSE LET e == SepEnd(s, SkipSpace(s, i + n1))
         IN  IF e = 0 THEN 0
             ELSE LET k == SkipSpace(s, e)
                  IN  IF AllDigits(s, k, 2) THEN k ELSE 0

\* re.search(r'(\d{2,3})\s*(?:/|over)\s*(\d{2,3})', s): the leftmost start,
\* the greedy first group (3 digits before 2), the greedy second group
bp_search(s) ==
    LET starts == {i \in 1..Len(s) : BpTail(s, i, 3) # 0 \/ BpTail(s, i, 2) # 0}
    IN  IF starts = {} THEN NoMatch
        ELSE LET i  == CHOOSE x \in starts : \A y \in starts : x <= y
                 n1 == IF BpTail(s, i, 3) # 0 THEN 3 ELSE 2
                 k  == BpTail(s, i, n1)
                 n2 == IF AllDigits(s, k, 3) THEN 3 ELSE 2
             IN  [matched |-> TRUE,
                  g1 |-> SubSeq(s, i, i + n1 - 1),
                  g2 |-> SubSeq(s, k, k + n2 - 1)]

\* a search for the duration that never matches
duration_search_none(s) == NoMatch

\* re.search(r'(\d+)\s*(min|minute)', s): the leftmost start; group 1 runs to
\* the end of the digit run, since a shorter group is followed by a digit
duration_search(s) ==
    LET ok(i) == /\ IsDigit(s[i])
                 /\ StartsAt(s, SkipSpace(s, SkipDigits(s, i)), <<"m", "i", "n">>)
        starts == {i \in 1..Len(s) : ok(i)}
    IN  IF starts = {} THEN NoMatch
        ELSE LET i == CHOOSE x \in starts : \A y \in starts : x <= y
             IN  [matched |-> TRUE, g1 |-> SubSeq(s, i, SkipDigits(s, i) - 1)]

\* re.findall(r'\d+', s)[0], when there is one
first_number(s) ==
    LET starts == {i \in 1..Len(s) : IsDigit(s[i])}
    IN  IF starts = {} THEN NoMatch
        ELSE LET i == CHOOSE x \in starts : \A y \in starts : x <= y
             IN  [matched |-> TRUE, g1 |-> SubSeq(s, i, SkipDigits(s, i) - 1)]

BpKeywords == {<<"b", "p">>, <<"/">>, <<"p", "r", "e", "s", "s", "u", "r", "e">>}
ActivityKeywords == {<<"w", "a", "l", "k">>, <<"r", "u", "n">>, <<"s", "w", "i", "m">>,
                     <<"m", "i", "n">>, <<"e", "x", "e", "r", "c", "i", "s", "e">>,
                     <<"a", "c", "t", "i", "v", "i", "t", "y">>}
CholesterolKeywords == {<<"c", "h", "o", "l", "e", "s", "t", "e", "r", "o", "l">>,
                        <<"l", "d", "l">>, <<"h", "d", "l">>}
StatusKeywords == {<<"s", "t", "a", "t", "u", "s">>, <<"h", "o", "w">>,
                   <<"s", "u", "m", "m", "a", "r", "y">>, <<"d", "o", "i", "n", "g">>,
                   <<"r", "e", "p", "o", "r", "t">>}

\* any(word in inp for word in words)
AnyIn(words, inp) == \E w \in words : Contains(inp, w)

\* the router without .lower(): the keywords are matched against the raw text
RouteCaseSensitive(user_input) ==
    IF AnyIn(BpKeywords, user_input) THEN "process_blood_pressure"
    ELSE IF AnyIn(ActivityKeywords, user_input) THEN "process_activity"
    ELSE IF AnyIn(CholesterolKeywords, user_input) THEN "process_cholesterol"
    ELSE IF AnyIn(StatusKeywords, user_input) THEN "process_status_check"
    ELSE "fallback"

\* the branch of process_user_input that returns
Route(user_input) ==
    LET inp == lower(user_input)
    IN  IF AnyIn(BpKeywords, inp) THEN "process_blood_pressure"
        ELSE IF AnyIn(ActivityKeywords, inp) THEN "process_activity"
        ELSE IF AnyIn(CholesterolKeywords, inp) THEN "process_cholesterol"
        ELSE IF AnyIn(StatusKeywords, inp) THEN "process_status_check"
        ELSE "fallback"

-----------------------------------------------------------------------------
(* utils/database.py: the stores *)

RecordTables == {"blood_pressure", "activities", "predictions_history",
                 "chat_history", "cholesterol_readings"}

\* what can be reached when a script run connects: PostgreSQL, the SQLite file
Reach == [pg : BOOLEAN, lite : BOOLEAN]

\* get_connection trying the SQLite file before PostgreSQL
get_connection_sqlite_first(reach) ==
    IF reach.lite THEN "sqlite"
    ELSE IF reach.pg THEN "pg"
    ELSE "none"

\* get_connection(): the kind of the connection returned
get_connection(reach) ==
    IF reach.pg THEN "pg"
    ELSE IF reach.lite THEN "sqlite"
    ELSE "none"

\* init_db with DROP TABLE before CREATE TABLE, and no file without a connection
init_db_recreating(tables, reach) ==
    IF reach.lite THEN RecordTables \cup {"users"} ELSE {}

\* init_db(): CREATE TABLE IF NOT EXISTS for the six tables of the SQLite file
init_db(tables, reach) ==
    IF reach.lite THEN tables \cup RecordTables \cup {"users"} ELSE tables

\* verify_user with the password left out of the WHERE clause
verify_user_any_password(usrs, tables, reach, username, password) ==
    IF ~reach.lite \/ "users" \notin tables
    THEN <<FALSE, None>>
    ELSE LET hit == {i \in 1..Len(usrs) : usrs[i].username = username}
         IN  IF hit # {}
             THEN <<TRUE, usrs[CHOOSE i \in hit : \A j \in hit : i <= j].id>>
             ELSE <<FALSE, None>>

\* verify_user(username, password): the pair returned
verify_user(usrs, tables, reach, username, password) ==
    IF ~reach.lite \/ "users" \notin tables
    THEN <<FALSE, None>>
    ELSE LET hit == {i \in 1..Len(usrs) : /\ usrs[i].username = username
                                          /\ usrs[i].password = password}
         IN  IF hit # {}
             THEN <<TRUE, usrs[CHOOSE i \in hit : \A j \in hit : i <= j].id>>
             ELSE <<FALSE, None>>

\* create_user on a users table whose username column is not UNIQUE
create_user_not_unique(usrs, tables, reach, username, password) ==
    IF ~reach.lite \/ "users" \notin tables
    THEN [success |-> FALSE, result |-> "OperationalError", users |-> usrs]
    ELSE [success |-> TRUE, result |-> Len(usrs) + 1,
          users |-> Append(usrs, [id |-> Len(usrs) + 1, username |-> username,
                                  password |-> password])]

\* create_user(username, password): the pair returned and the users table after
create_user(usrs, tables, reach, username, password) ==
    IF ~reach.lite \/ "users" \notin tables
    THEN [success |-> FALSE, result |-> "OperationalError", users |-> usrs]
    ELSE IF \E i \in 1..Len(usrs) : usrs[i].username = username
    THEN [success |-> FALSE, result |-> "Username already exists", users |-> usrs]
    ELSE [success |-> TRUE, result |-> Len(usrs) + 1,
          users |-> Append(usrs, [id |-> Len(usrs) + 1, username |-> username,
                                  password |-> password])]

\* database_new.py: hash_password, a digest that is not its argument
hash_password(password) == "sha256(" \o password \o ")"

\* the outcome of a save: the two stores after it and the value returned
Saved(l, p, ok) == [lite |-> l, pg |-> p, ok |-> ok]

\* an INSERT that replaces the rows of the table instead of adding to them
InsertRowReplacing(store, table, row) ==
    [store EXCEPT ![table] = <<[id |-> 1] @@ row>>]

InsertRow(store, table, row) ==
    [store EXCEPT ![table] = Append(@, [id |-> Len(@) + 1] @@ row)]

\* save_blood_pressure of utils/database.py
save_blood_pressure(l, lt, p, pt, reach, now, user_id, systolic, diastolic, heart_rate, notes) ==
    LET conn == get_connection(reach)
        row == [user_id |-> str(user_id), systolic |-> systolic,
                diastolic |-> diastolic, heart_rate |-> heart_rate,
                timestamp |-> now, notes |-> notes]
    IN  IF conn = "none" THEN Saved(l, p, FALSE)
        ELSE IF conn = "sqlite"
        THEN IF "blood_pressure" \in lt
             THEN Saved(InsertRow(l, "blood_pressure", row), p, TRUE)
             ELSE Saved(l, p, FALSE)
        ELSE IF "blood_pressure" \in pt
             THEN Saved(l, InsertRow(p, "blood_pressure", row), TRUE)
             ELSE Saved(l, p, FALSE)

\* mult.get(intensity, 5)
Mult(intensity) ==
    CASE intensity = "Light" -> 3
      [] intensity = "Moderate" -> 5
      [] intensity = "Vigorous" -> 8
      [] OTHER -> 5

\* save_activity with its "return True" moved out of the try block
save_activity_unchecked(l, lt, p, pt, reach, now, user_id, activity_type, duration, intensity, calories, notes) ==
    LET conn == get_connection(reach)
        cal == IF calories = None THEN duration * Mult(intensity) ELSE calories
        row == [user_id |-> str(user_id), activity_type |-> activity_type,
                duration |-> duration, intensity |-> intensity, calories |-> cal,
                timestamp |-> now, notes |-> notes]
    IN  IF conn = "sqlite" /\ "activities" \in lt
        THEN Saved(InsertRow(l, "activities", row), p, TRUE)
        ELSE IF conn = "pg" /\ "activities" \in pt
             THEN Saved(l, InsertRow(p, "activities", row), TRUE)
             ELSE Saved(l, p, TRUE)

\* save_activity of utils/database.py; calories = None asks for the default
save_activity(l, lt, p, pt, reach, now, user_id, activity_type, duration, intensity, calories, notes) ==
    LET conn == get_connection(reach)
        cal == IF calories = None THEN duration * Mult(intensity) ELSE calories
        row == [user_id |-> str(user_id), activity_type |-> activity_type,
                duration |-> duration, intensity |-> intensity, calories |-> cal,
                timestamp |-> now, notes |-> notes]
    IN  IF conn = "sqlite"
        THEN IF "activities" \in lt
             THEN Saved(InsertRow(l, "activities", row), p, TRUE)
             ELSE Saved(l, p, FALSE)
        ELSE IF conn = "pg" /\ "activities" \in pt
             THEN Saved(l, InsertRow(p, "activities", row), TRUE)
             ELSE Saved(l, p, FALSE)

\* the outcome of save_cholesterol: it also creates its SQLite table
SavedIn(l, lt, p, ok) == [lite |-> l, liteTables |-> lt, pg |-> p, ok |-> ok]

\* save_cholesterol of utils/database.py
save_cholesterol(l, lt, p, pt, reach, now, user_id, total_chol, ldl, hdl, triglycerides, notes) ==
    LET conn == get_connection(reach)
        row == [user_id |-> str(user_id), total_cholesterol |-> total_chol,
                ldl |-> ldl, hdl |-> hdl, triglycerides |-> triglycerides,
                timestamp |-> now, notes |-> notes]
    IN  IF conn = "sqlite"
        THEN SavedIn(InsertRow(l, "cholesterol_readings", row),
                     lt \cup {"cholesterol_readings"}, p, TRUE)
        ELSE IF conn = "pg" /\ "cholesterol_readings" \in pt
             THEN SavedIn(l, lt, InsertRow(p, "cholesterol_readings", row), TRUE)
             ELSE SavedIn(l, lt, p, FALSE)

\* save_chat_message of utils/database.py: it returns None; ok tells whether
\* the INSERT was committed
save_chat_message(l, lt, p, pt, reach, now, user_id, role, message) ==
    LET conn == get_connection(reach)
        row == [user_id |-> str(user_id), role |-> role, message |-> message,
                timestamp |-> now]
    IN  IF conn = "sqlite"
        THEN IF "chat_history" \in lt
             THEN Saved(InsertRow(l, "chat_history", row), p, TRUE)
             ELSE Saved(l, p, FALSE)
        ELSE IF conn = "pg" /\ "chat_history" \in pt
             THEN Saved(l, InsertRow(p, "chat_history", row), TRUE)
             ELSE Saved(l, p, FALSE)

\* log_prediction_to_db of utils/database.py
log_prediction_to_db(l, lt, p, pt, reach, now, user_id, age, chol, bp, target, prob) ==
    LET conn == get_connection(reach)
        row == [user_id |-> str(user_id), age |-> age, cholesterol |-> chol,
                resting_bp_s |-> bp, predicted_target |-> target,
                probability |-> prob, timestamp |-> now]
    IN  IF conn = "sqlite"
        THEN IF "predictions_history" \in lt
             THEN Saved(InsertRow(l, "predictions_history", row), p, TRUE)
             ELSE Saved(l, p, FALSE)
        ELSE IF conn = "pg" /\ "predictions_history" \in pt
             THEN Saved(l, InsertRow(p, "predictions_history", row), TRUE)
             ELSE Saved(l, p, FALSE)

\* a SELECT without its WHERE clause
WhereAnyUser(rows, user_id) == rows

\* rows of table whose user_id column equals str(user_id)
WhereUser(rows, user_id) == SelectSeq(rows, LAMBDA r : r.user_id = str(user_id))

\* the first n elements of a sequence (LIMIT n)
Limit(rows, n) == SubSeq(rows, 1, Min(n, Len(rows)))

\* rows are kept in insertion order, which is ascending in timestamp;
\* ORDER BY timestamp DESC returns them newest first
Reverse(rows) == [i \in 1..Len(rows) |-> rows[Len(rows) + 1 - i]]

\* the rows get_prediction_history of utils/database.py selects
get_prediction_history(l, lt, p, pt, reach, user_id) ==
    LET conn == get_connection(reach)
    IN  IF conn = "sqlite" /\ "predictions_history" \in lt
        THEN Reverse(WhereUser(l["predictions_history"], user_id))
        ELSE IF conn = "pg" /\ "predictions_history" \in pt
        THEN Reverse(WhereUser(p["predictions_history"], user_id))
        ELSE <<>>

\* INTERVAL '7 days'
Week == 7

\* the rows get_weekly_bp_summary of utils/database.py averages
get_weekly_bp_summary(l, lt, p, pt, reach, now, user_id) ==
    LET conn == get_connection(reach)
        week(rows) == SelectSeq(WhereUser(rows, user_id),
                                LAMBDA r : r.timestamp >= now - Week)
    IN  IF conn = "sqlite" /\ "blood_pressure" \in lt
        THEN week(l["blood_pressure"])
        ELSE IF conn = "pg" /\ "blood_pressure" \in pt
        THEN week(p["blood_pressure"])
        ELSE <<>>

\* row placed into rows, which are in ascending order of timestamp, behind
\* the rows that are not newer
RECURSIVE PlacedByTimestamp(_, _)
PlacedByTimestamp(rows, row) ==
    IF Len(rows) = 0 \/ rows[Len(rows)].timestamp <= row.timestamp
    THEN Append(rows, row)
    ELSE Append(PlacedByTimestamp(SubSeq(rows, 1, Len(rows) - 1), row), rows[Len(rows)])

\* ORDER BY timestamp ASC, rows of one timestamp in the order of insertion
RECURSIVE OrderByTimestamp(_)
OrderByTimestamp(rows) ==
    IF Len(rows) = 0 THEN <<>>
    ELSE PlacedByTimestamp(OrderByTimestamp(SubSeq(rows, 1, Len(rows) - 1)),
                           rows[Len(rows)])

\* the rows load_chat_history of utils/database.py returns
load_chat_history(l, lt, p, pt, reach, user_id, limit) ==
    LET conn == get_connection(reach)
    IN  IF conn = "sqlite" /\ "chat_history" \in lt
        THEN Limit(OrderByTimestamp(WhereUser(l["chat_history"], user_id)), limit)
        ELSE IF conn = "pg" /\ "chat_history" \in pt
        THEN Limit(OrderByTimestamp(WhereUser(p["chat_history"], user_id)), limit)
        ELSE <<>>

-----------------------------------------------------------------------------
(* pages/2_Risk_Assessment.py and pages/5_Health_Assistant.py: their own    *)
(* storage functions, written for PostgreSQL (%s placeholders): on the      *)
(* SQLite connection the statement fails, on no connection conn.cursor()    *)
(* raises, and either way the except branch runs                            *)

RecentLimit == 5
ChatLimit == 20

\* ensure_db_setup(): CREATE TABLE IF NOT EXISTS predictions_history
ensure_db_setup(lt, pt, reach) ==
    LET conn == get_connection(reach)
    IN  [liteTables |-> IF conn = "sqlite" THEN lt \cup {"predictions_history"} ELSE lt,
         pgTables |-> IF conn = "pg" THEN pt \cup {"predictions_history"} ELSE pt]

\* ensure_tables_exist(): CREATE TABLE IF NOT EXISTS for four tables
ensure_tables_exist(lt, pt, reach) ==
    LET conn == get_connection(reach)
        four == {"blood_pressure", "activities", "chat_history", "cholesterol_readings"}
    IN  [liteTables |-> IF conn = "sqlite" THEN lt \cup four ELSE lt,
         pgTables |-> IF conn = "pg" THEN pt \cup four ELSE pt]

\* an INSERT of the pages: the PostgreSQL tables after it and whether it succeeded
PgInsert(p, pt, reach, table, row) ==
    IF get_connection(reach) = "pg" /\ table \in pt
    THEN [pg |-> InsertRow(p, table, row), ok |-> TRUE]
    ELSE [pg |-> p, ok |-> FALSE]

\* log_prediction_to_db with cholesterol and resting BP in each other's column
P2_log_prediction_to_db_swapped(p, pt, reach, now, user_id, age, chol, bp, target, prob) ==
    PgInsert(p, pt, reach, "predictions_history",
             [user_id |-> str(user_id), age |-> age, cholesterol |-> bp,
              resting_bp_s |-> chol, predicted_target |-> target,
              probability |-> prob, timestamp |-> now])

\* log_prediction_to_db of pages/2_Risk_Assessment.py
P2_log_prediction_to_db(p, pt, reach, now, user_id, age, chol, bp, target, prob) ==
    PgInsert(p, pt, reach, "predictions_history",
             [user_id |-> str(user_id), age |-> age, cholesterol |-> chol,
              resting_bp_s |-> bp, predicted_target |-> target,
              probability |-> prob, timestamp |-> now])

\* the rows get_recent_logs returns: newest first, at most five
get_recent_logs(p, pt, reach, user_id) ==
    IF get_connection(reach) = "pg" /\ "predictions_history" \in pt
    THEN Limit(Reverse(WhereUser(p["predictions_history"], user_id)), RecentLimit)
    ELSE <<>>

\* save_blood_pressure that loses the user_id it was given
P5_save_blood_pressure_unowned(p, pt, reach, now, user_id, systolic, diastolic) ==
    PgInsert(p, pt, reach, "blood_pressure",
             [user_id |-> str(None), systolic |-> systolic,
              diastolic |-> diastolic, heart_rate |-> None,
              timestamp |-> now, notes |-> ""])

\* save_blood_pressure of pages/5_Health_Assistant.py
P5_save_blood_pressure(p, pt, reach, now, user_id, systolic, diastolic) ==
    PgInsert(p, pt, reach, "blood_pressure",
             [user_id |-> str(user_id), systolic |-> systolic,
              diastolic |-> diastolic, heart_rate |-> None,
              timestamp |-> now, notes |-> ""])

\* save_activity of pages/5_Health_Assistant.py, called without calories
P5_save_activity(p, pt, reach, now, user_id, activity_type, duration, intensity) ==
    PgInsert(p, pt, reach, "activities",
             [user_id |-> str(user_id), activity_type |-> activity_type,
              duration |-> duration, intensity |-> intensity,
              calories |-> duration * Mult(intensity),
              timestamp |-> now, notes |-> ""])

\* save_cholesterol of pages/5_Health_Assistant.py
P5_save_cholesterol(p, pt, reach, now, user_id, total_chol, ldl) ==
    PgInsert(p, pt, reach, "cholesterol_readings",
             [user_id |-> str(user_id), total_cholesterol |-> total_chol,
              ldl |-> ldl, hdl |-> None, triglycerides |-> None,
              timestamp |-> now, notes |-> ""])

\* save_chat_message that never reaches its INSERT
P5_save_chat_message_dropped(p, pt, reach, now, user_id, role, message) == p

\* save_chat_message of pages/5_Health_Assistant.py
P5_save_chat_message(p, pt, reach, now, user_id, role, message) ==
    PgInsert(p, pt, reach, "chat_history",
             [user_id |-> str(user_id), role |-> role, message |-> message,
              timestamp |-> now]).pg

\* load_chat_history with ORDER BY timestamp DESC: the newest rows, oldest first
P5_load_chat_history_newest(p, pt, reach, user_id) ==
    IF get_connection(reach) = "pg" /\ "chat_history" \in pt
    THEN Reverse(Limit(Reverse(OrderByTimestamp(WhereUser(p["chat_history"], user_id))),
                       ChatLimit))
    ELSE <<>>

\* the rows load_chat_history of pages/5_Health_Assistant.py selects
P5_load_chat_history_rows(p, pt, reach, user_id) ==
    IF get_connection(reach) = "pg" /\ "chat_history" \in pt
    THEN Limit(OrderByTimestamp(WhereUser(p["chat_history"], user_id)), ChatLimit)
    ELSE <<>>

\* df.to_dict('records') of the columns role, message as content
P5_load_chat_history(p, pt, reach, user_id) ==
    LET rows == P5_load_chat_history_rows(p, pt, reach, user_id)
    IN  [i \in 1..Len(rows) |-> [role |-> rows[i].role, content |-> rows[i].message]]

\* an f-string: the template and the string forms substituted into it
Text(fmt, args) == [fmt |-> fmt, args |-> args]

\* the text typed into st.chat_input
Typed(user_input) == Text("{}", <<user_input>>)

\* the value a handler returns: the reply and the PostgreSQL tables after it
Handled(reply, p) == [reply |-> reply, pg |-> p]

process_blood_pressure(p, pt, reach, now, user_input, user_id) ==
    LET bp_match == bp_search(lower(user_input))
        failed == Handled(Text("Could not parse BP. Try: 'My BP is 120/80'", <<>>), p)
    IN  IF bp_match.matched
        THEN LET sys == int(bp_match.g1)
                 dia == int(bp_match.g2)
                 sv == P5_save_blood_pressure(p, pt, reach, now, user_id, sys, dia)
             IN  IF sv.ok
                 THEN Handled(Text("Logged BP: **{sys}/{dia} mmHg**. Great job tracking your levels!",
                                   <<str(sys), str(dia)>>), sv.pg)
                 ELSE failed
        ELSE failed

process_activity(p, pt, reach, now, user_input, user_id) ==
    LET duration_match == duration_search(lower(user_input))
        duration == IF duration_match.matched THEN int(duration_match.g1) ELSE 30
        sv == P5_save_activity(p, pt, reach, now, user_id, "Exercise", duration, "Moderate")
    IN  IF sv.ok
        THEN Handled(Text("Logged **{duration} mins** of activity! Keep moving!",
                          <<str(duration)>>), sv.pg)
        ELSE Handled(Text("Error logging activity.", <<>>), p)

process_cholesterol(p, pt, reach, now, user_input, user_id) ==
    LET numbers == first_number(user_input)
    IN  IF numbers.matched
        THEN LET val == int(numbers.g1)
             IN  IF Contains(lower(user_input), <<"l", "d", "l">>)
                 THEN Handled(Text("Logged LDL Cholesterol: **{val} mg/dL**.", <<str(val)>>),
                              P5_save_cholesterol(p, pt, reach, now, user_id, None, val).pg)
                 ELSE Handled(Text("Logged Total Cholesterol: **{val} mg/dL**.", <<str(val)>>),
                              P5_save_cholesterol(p, pt, reach, now, user_id, val, None).pg)
        ELSE Handled(Text("Please provide a number for your cholesterol.", <<>>), p)

\* the rows process_status_check averages
status_rows(p, pt, reach, now, user_id) ==
    IF get_connection(reach) = "pg" /\ "blood_pressure" \in pt
    THEN SelectSeq(WhereUser(p["blood_pressure"], user_id),
                   LAMBDA r : r.timestamp >= now - Week)
    ELSE <<>>

RECURSIVE SumOf(_, _)
SumOf(rows, column) ==
    IF Len(rows) = 0 THEN 0 ELSE rows[1][column] + SumOf(Tail(rows), column)

\* f"{total / n:.0f}": the quotient rounded to the nearest integer, ties to even
Format0f(total, n) ==
    LET q == total \div n
        r == total % n
    IN  IF 2 * r < n THEN q
        ELSE IF 2 * r > n THEN q + 1
        ELSE IF q % 2 = 0 THEN q ELSE q + 1

process_status_check(p, pt, reach, now, user_id) ==
    IF get_connection(reach) # "pg" \/ "blood_pressure" \notin pt
    THEN Text("Error fetching status: {e}", <<>>)
    ELSE LET rows == status_rows(p, pt, reach, now, user_id)
         IN  IF Len(rows) > 0 /\ SumOf(rows, "systolic") # 0
             THEN Text("**Weekly Summary:** Your average BP is **{s:.0f}/{d:.0f} mmHg**.",
                       <<str(Format0f(SumOf(rows, "systolic"), Len(rows))),
                         str(Format0f(SumOf(rows, "diastolic"), Len(rows)))>>)
             ELSE Text("No data found for the last 7 days. Start logging to see your summary!", <<>>)

process_user_input(p, pt, reach, now, user_input, user_id) ==
    LET branch == Route(user_input)
    IN  CASE branch = "process_blood_pressure" ->
               process_blood_pressure(p, pt, reach, now, user_input, user_id)
          [] branch = "process_activity" ->
               process_activity(p, pt, reach, now, user_input, user_id)
          [] branch = "process_cholesterol" ->
               process_cholesterol(p, pt, reach, now, user_input, user_id)
          [] branch = "process_status_check" ->
               Handled(process_status_check(p, pt, reach, now, user_id), p)
          [] OTHER ->
               Handled(Text("I can log your BP (120/80), activities (walked 20 min), or cholesterol. How can I help?",
                            <<>>), p)

-----------------------------------------------------------------------------
(* The sessions, the inputs and the initial state *)

Sessions == {"s1", "s2"}

\* the login form as submitted: username, password
LoginForms ==
    {<<"alice", "secret1">>, <<"alice", "hunter22">>, <<"bob", "hunter22">>,
     <<"", "secret1">>, <<"bob", "">>}

\* the sign-up form as submitted: username, password, confirmation
SignupForms ==
    {<<"alice", "secret1", "secret1">>, <<"alice", "hunter22", "hunter22">>,
     <<"bob", "hunter22", "hunter22">>, <<"", "secret1", "secret1">>,
     <<"bob", "secret1", "">>, <<"bob", "secret1", "hunter22">>,
     <<"bob", "abc", "abc">>}

\* the sign-up forms the sessions submit: a second password for alice is
\* only ever refused or, submitted first, stored in place of the other one
SignupInputs == SignupForms \ {<<"alice", "hunter22", "hunter22">>}

\* st.session_state: the keys set so far and their values
FreshSession ==
    [keys |-> {}, logged_in |-> FALSE, user_id |-> None, username |-> NoneStr,
     chat_history |-> <<>>]

\* the check without its second operand: the key is there
LoggedInKeyOnly(ss) == "logged_in" \in ss.keys

\* 'logged_in' in st.session_state and st.session_state.logged_in
LoggedIn(ss) == "logged_in" \in ss.keys /\ ss.logged_in

\* app.py: "Initialize session state"; an absent key holds its default here
SessionInit(ss) == [ss EXCEPT !.keys = @ \cup {"logged_in", "user_id", "username"}]

\* the names utils/database.py defines or imports at module level
Exports ==
    {"get_connection", "init_db", "verify_user", "create_user",
     "save_blood_pressure", "save_activity", "save_cholesterol",
     "save_chat_message", "get_weekly_bp_summary", "load_chat_history",
     "get_prediction_history", "log_prediction_to_db",
     "sqlite3", "os", "psycopg2", "RealDictCursor", "load_dotenv", "datetime", "pd"}

\* the names each script imports from utils.database
Imports(page) ==
    CASE page = "app" -> {"init_db", "verify_user", "create_user", "get_prediction_history"}
      [] page = "1_Dashboard" -> {"init_db", "get_blood_pressure_data", "get_activity_data"}
      [] page = "2_Risk_Assessment" -> {"get_connection"}
      [] page = "3_BP_Monitoring" -> {"init_db", "save_blood_pressure", "get_blood_pressure_data"}
      [] page = "4_Activity_Tracker" -> {"init_db", "save_activity", "get_activity_data"}
      [] page = "5_Health_Assistant" -> {"get_connection"}

\* "from utils.database import ..." raises ImportError on a name not defined
ImportOK(page) == Imports(page) \subseteq Exports

EmptyStore == [t \in RecordTables |-> <<>>]

TotalRows(store) ==
    Len(store["blood_pressure"]) + Len(store["activities"])
    + Len(store["predictions_history"]) + Len(store["chat_history"])
    + Len(store["cholesterol_readings"])

AppInit ==
    /\ users = <<>>
    /\ liteTables = {}
    /\ pgTables = {}
    /\ lite = EmptyStore
    /\ pg = EmptyStore
    /\ session = [s \in Sessions |-> FreshSession]
    /\ clock = 0

\* no call of utils/database has been made
NoCall == [fn |-> "", conn |-> "", ok |-> FALSE, added |-> 0]

\* no input has been processed by the assistant
NoChat == [branch |-> "", conn |-> "", reply |-> Text("", <<>>), before |-> EmptyStore,
           now |-> 0]

\* no chat history has been loaded
NoLoad == [user_id |-> None, conn |-> "", loaded |-> <<>>, df |-> <<>>,
           chat_history |-> <<>>]

HarnessIdle ==
    /\ bpIn = <<0, 0>>
    /\ bpOut = [category |-> "", color |-> ""]
    /\ rtIn = <<>>
    /\ rtOut = ""
    /\ dbOut = NoCall
    /\ chatOut = NoChat
    /\ histOut = NoLoad

Init == AppInit /\ HarnessIdle

-----------------------------------------------------------------------------
(* One script run of session s: the state it leaves, the storage functions *)
(* it called in order, what it put on the page, the value it computed      *)

\* a run that changes nothing, calls nothing and shows nothing
Idle(s) ==
    [users |-> users, liteTables |-> liteTables, pgTables |-> pgTables,
     lite |-> lite, pg |-> pg, session |-> session[s],
     calls |-> <<>>, shown |-> "", ret |-> <<>>]

\* the state after the run
Commit(s, run) ==
    \E r \in {run} :
        /\ Len(r.users) <= MaxUsers
        /\ TotalRows(r.pg) <= MaxRows
        /\ TotalRows(r.lite) <= MaxRows
        /\ Len(r.session.chat_history) <= MaxHist
        /\ users' = r.users
        /\ liteTables' = r.liteTables
        /\ pgTables' = r.pgTables
        /\ lite' = r.lite
        /\ pg' = r.pg
        /\ session' = [session EXCEPT ![s] = r.session]
        /\ UNCHANGED clock

-----------------------------------------------------------------------------
(* app.py *)

\* the script down to the login gate: init_db(), the session defaults
AppPrelude(s, reach) ==
    [Idle(s) EXCEPT !.liteTables = init_db(liteTables, reach),
                    !.session = SessionInit(session[s]),
                    !.calls = <<"init_db">>]

\* a run with no form submitted and no button pressed
AppViewRun(s, reach) ==
    LET pre == AppPrelude(s, reach)
    IN  IF ~pre.session.logged_in
        THEN [pre EXCEPT !.shown = "login_ui"]
        ELSE [pre EXCEPT !.shown = "dashboard",
                         !.calls = @ \o <<"get_prediction_history",
                                          "get_prediction_history">>]

\* a run with the login form submitted
AppLoginRun(s, reach, login_user, login_pass) ==
    LET pre == AppPrelude(s, reach)
        v == verify_user(users, pre.liteTables, reach, login_user, login_pass)
    IN  IF login_user = "" \/ login_pass = ""
        THEN [pre EXCEPT !.shown = "Please fill in all fields."]
        ELSE IF v[1]
        THEN [pre EXCEPT !.session = [@ EXCEPT !.logged_in = TRUE, !.user_id = v[2],
                                               !.username = login_user],
                         !.calls = @ \o <<"verify_user">>,
                         !.shown = "rerun", !.ret = v]
        ELSE [pre EXCEPT !.calls = @ \o <<"verify_user">>,
                         !.shown = "Invalid Username or Password.", !.ret = v]

\* the sign-up run without the three checks of the form
AppSignupRunUnvalidated(s, reach, signup_user, signup_pass, signup_pass_confirm) ==
    LET pre == AppPrelude(s, reach)
        c == create_user(users, pre.liteTables, reach, signup_user, signup_pass)
    IN  IF c.success
        THEN [pre EXCEPT !.users = c.users,
                         !.session = [@ EXCEPT !.logged_in = TRUE, !.user_id = c.result,
                                               !.username = signup_user],
                         !.calls = @ \o <<"create_user">>,
                         !.shown = "rerun", !.ret = <<c.success, c.result>>]
        ELSE [pre EXCEPT !.users = c.users,
                         !.calls = @ \o <<"create_user">>,
                         !.shown = "Sign up failed: {result}",
                         !.ret = <<c.success, c.result>>]

\* a run with the sign-up form submitted
AppSignupRun(s, reach, signup_user, signup_pass, signup_pass_confirm) ==
    LET pre == AppPrelude(s, reach)
        c == create_user(users, pre.liteTables, reach, signup_user, signup_pass)
    IN  IF signup_user = "" \/ signup_pass = "" \/ signup_pass_confirm = ""
        THEN [pre EXCEPT !.shown = "Please fill in all fields."]
        ELSE IF signup_pass # signup_pass_confirm
        THEN [pre EXCEPT !.shown = "Passwords do not match."]
        ELSE IF Len(signup_pass) < 6
        THEN [pre EXCEPT !.shown = "Password must be at least 6 characters."]
        ELSE IF c.success
        THEN [pre EXCEPT !.users = c.users,
                         !.session = [@ EXCEPT !.logged_in = TRUE, !.user_id = c.result,
                                               !.username = signup_user],
                         !.calls = @ \o <<"create_user">>,
                         !.shown = "rerun", !.ret = <<c.success, c.result>>]
        ELSE [pre EXCEPT !.users = c.users,
                         !.calls = @ \o <<"create_user">>,
                         !.shown = "Sign up failed: {result}",
                         !.ret = <<c.success, c.result>>]

\* a logout that clears the flag only
AppLogoutRunKeepingUser(s, reach) ==
    LET pre == AppPrelude(s, reach)
    IN  [pre EXCEPT !.session = [@ EXCEPT !.logged_in = FALSE],
                    !.shown = "rerun"]

\* a run with the Logout button pressed
AppLogoutRun(s, reach) ==
    LET pre == AppPrelude(s, reach)
    IN  [pre EXCEPT !.session = [@ EXCEPT !.logged_in = FALSE, !.user_id = None,
                                          !.username = NoneStr],
                    !.shown = "rerun"]

AppView(s) == \E reach \in Reach : Commit(s, AppViewRun(s, reach))

\* the login form is on the page of a session that is not logged in
AppLogin(s, login_user, login_pass) ==
    /\ ~LoggedIn(session[s])
    /\ \E reach \in Reach : Commit(s, AppLoginRun(s, reach, login_user, login_pass))

AppSignup(s, signup_user, signup_pass, signup_pass_confirm) ==
    /\ ~LoggedIn(session[s])
    /\ \E reach \in Reach :
          Commit(s, AppSignupRun(s, reach, signup_user, signup_pass, signup_pass_confirm))

\* the Logout button is in the sidebar of a session that is logged in
AppLogout(s) ==
    /\ LoggedIn(session[s])
    /\ \E reach \in Reach : Commit(s, AppLogoutRun(s, reach))

-----------------------------------------------------------------------------
(* The texts typed into the chat input *)

\* 'BP 120/80'
SayBp ==
    <<"B", "P", " ", "1", "2", "0", "/", "8", "0">>
\* 'Pressure is high'
SayPressure ==
    <<"P", "r", "e", "s", "s", "u", "r", "e", " ", "i", "s", " ", "h",
    "i", "g", "h">>
\* 'Walked 20 min'
SayWalk ==
    <<"W", "a", "l", "k", "e", "d", " ", "2", "0", " ", "m", "i", "n">>
\* 'LDL 110'
SayLdl ==
    <<"L", "D", "L", " ", "1", "1", "0">>
\* 'How am I?'
SayHow ==
    <<"H", "o", "w", " ", "a", "m", " ", "I", "?">>
\* 'hello'
SayHello ==
    <<"h", "e", "l", "l", "o">>

\* the texts a chat run can be given
ChatTexts == {SayBp, SayPressure, SayWalk, SayLdl, SayHow, SayHello}

\* the text the sessions submit
ChatInputs == {SayBp}

\* 'bp 135 over 85'
SayOver ==
    <<"b", "p", " ", "1", "3", "5", " ", "o", "v", "e", "r", " ", "8", "5">>
\* 'BP 180/110'
SayHigh ==
    <<"B", "P", " ", "1", "8", "0", "/", "1", "1", "0">>
\* 'BP 1200/80'
SayLong ==
    <<"B", "P", " ", "1", "2", "0", "0", "/", "8", "0">>
\* '120 / 80'
SaySpaced ==
    <<"1", "2", "0", " ", "/", " ", "8", "0">>
\* 'BP 99/7'
SayShort ==
    <<"B", "P", " ", "9", "9", "/", "7">>
\* 'I run'
SayRun ==
    <<"I", " ", "r", "u", "n">>
\* 'Cholesterol 190'
SayTotal ==
    <<"C", "h", "o", "l", "e", "s", "t", "e", "r", "o", "l", " ", "1", "9",
      "0">>
\* 'BP 00/80'
SayZero ==
    <<"B", "P", " ", "0", "0", "/", "8", "0">>
\* 'Ran 45 minutes, 5 min rest'
SayTwice ==
    <<"R", "a", "n", " ", "4", "5", " ", "m", "i", "n", "u", "t", "e", "s",
      ",", " ", "5", " ", "m", "i", "n", " ", "r", "e", "s", "t">>
\* 'Swim 2 km'
SaySwim ==
    <<"S", "w", "i", "m", " ", "2", " ", "k", "m">>
\* 'HDL 55'
SayHdl ==
    <<"H", "D", "L", " ", "5", "5">>
\* 'my hdl'
SayNoNumber ==
    <<"m", "y", " ", "h", "d", "l">>

\* the texts the assistant is given on its own
ChatSamples == ChatTexts \cup {SayOver, SayHigh, SayLong, SaySpaced, SayShort, SayRun, SayTotal, SayNoNumber,
                             SayZero, SayTwice, SaySwim, SayHdl}

\* 'BP'
WordBp ==
    <<"B", "P">>
\* '120/80'
WordReading ==
    <<"1", "2", "0", "/", "8", "0">>
\* 'Pressure'
WordPressure ==
    <<"P", "r", "e", "s", "s", "u", "r", "e">>
\* 'walked'
WordWalked ==
    <<"w", "a", "l", "k", "e", "d">>
\* '20 min'
WordMinutes ==
    <<"2", "0", " ", "m", "i", "n">>
\* 'Running'
WordRunning ==
    <<"R", "u", "n", "n", "i", "n", "g">>
\* 'LDL'
WordLdl ==
    <<"L", "D", "L">>
\* 'cholesterol'
WordCholesterol ==
    <<"c", "h", "o", "l", "e", "s", "t", "e", "r", "o", "l">>
\* '190'
WordNumber ==
    <<"1", "9", "0">>
\* 'How'
WordHow ==
    <<"H", "o", "w">>
\* 'summary'
WordSummary ==
    <<"s", "u", "m", "m", "a", "r", "y">>
\* 'hello'
WordHello ==
    <<"h", "e", "l", "l", "o">>

Words == {WordBp, WordReading, WordPressure, WordWalked,
          WordMinutes, WordRunning, WordLdl, WordCholesterol,
          WordNumber, WordHow, WordSummary, WordHello}

-----------------------------------------------------------------------------
(* pages/ *)

\* a script whose import of utils.database fails shows the exception only
ImportFailed(s) == [Idle(s) EXCEPT !.shown = "ImportError"]

\* the login check placed after the page has set up its tables
RefusedAfterSetup(s) ==
    [Idle(s) EXCEPT !.pgTables = RecordTables, !.calls = <<"ensure_tables_exist">>,
                    !.shown = "Please log in first!"]

\* the first statement of every page after its imports
Refused(s) == [Idle(s) EXCEPT !.shown = "Please log in first!"]

\* the second check of pages 3 and 4
Expired(s) == [Idle(s) EXCEPT !.shown = "User session expired. Please log in again."]

\* pages/1_Dashboard.py
DashboardRun(s, reach) ==
    IF ~ImportOK("1_Dashboard") THEN ImportFailed(s)
    ELSE IF ~LoggedIn(session[s]) THEN Refused(s)
    ELSE [Idle(s) EXCEPT !.liteTables = init_db(liteTables, reach),
                         !.calls = <<"init_db", "get_blood_pressure_data",
                                     "get_activity_data">>,
                         !.shown = "Health Dashboard"]

\* what the classifier artifact does: it cannot be loaded, it raises, or it
\* returns a label and a probability (in percent)
ModelOutcomes ==
    {[kind |-> "missing", label |-> 0, percent |-> 0],
     [kind |-> "raises", label |-> 0, percent |-> 0],
     [kind |-> "predicts", label |-> 1, percent |-> 75]}

\* the form of the risk page: age, cholesterol, resting blood pressure
Vitals == {<<50, 200, 120>>}

\* pages/2_Risk_Assessment.py: submitted says whether "Predict Risk" was pressed
RiskAssessmentRun(s, reach, submitted, vitals, model) ==
    IF ~ImportOK("2_Risk_Assessment") THEN ImportFailed(s)
    ELSE IF ~LoggedIn(session[s]) THEN Refused(s)
    ELSE
        LET t == ensure_db_setup(liteTables, pgTables, reach)
            pre == [Idle(s) EXCEPT !.liteTables = t.liteTables,
                                   !.pgTables = t.pgTables,
                                   !.calls = <<"ensure_db_setup">>]
            logged == P2_log_prediction_to_db(pg, t.pgTables, reach, clock,
                                              session[s].user_id,
                                              vitals[1], vitals[2], vitals[3],
                                              model.label, model.percent)
        IN  IF model.kind = "missing"
            THEN [pre EXCEPT !.shown = "Critical Error: Model files not found"]
            ELSE IF ~submitted
            THEN [pre EXCEPT !.calls = @ \o <<"get_recent_logs">>,
                             !.shown = "assessment_form"]
            ELSE IF model.kind = "raises"
            THEN [pre EXCEPT !.calls = @ \o <<"get_recent_logs">>,
                             !.shown = "Calculation Error: {e}"]
            ELSE [pre EXCEPT !.pg = logged.pg,
                             !.calls = @ \o <<"log_prediction_to_db", "get_recent_logs">>,
                             !.shown = IF model.label = 1 THEN "High Risk Detected: {p}%"
                                       ELSE "Low Risk Detected: {p}%",
                             !.ret = <<model.label, model.percent>>]

\* pages/3_BP_Monitoring.py: pressed says whether "Save Reading" was pressed
BPMonitoringRun(s, reach, pressed, systolic, diastolic) ==
    IF ~ImportOK("3_BP_Monitoring") THEN ImportFailed(s)
    ELSE IF ~LoggedIn(session[s]) THEN Refused(s)
    ELSE IF "user_id" \notin session[s].keys \/ session[s].user_id = None
    THEN Expired(s)
    ELSE
        LET lt == init_db(liteTables, reach)
            sv == save_blood_pressure(lite, lt, pg, pgTables, reach, clock,
                                      session[s].user_id, systolic, diastolic, 72, "")
        IN  IF ~pressed
            THEN [Idle(s) EXCEPT !.liteTables = lt,
                                 !.calls = <<"init_db", "get_blood_pressure_data">>,
                                 !.shown = "Blood Pressure Monitor"]
            ELSE [Idle(s) EXCEPT !.liteTables = lt, !.lite = sv.lite, !.pg = sv.pg,
                                 !.calls = <<"init_db", "save_blood_pressure">>,
                                 !.shown = IF sv.ok THEN "rerun"
                                           ELSE "Failed to save reading.",
                                 !.ret = <<classify_bp(systolic, diastolic).category>>]

\* the form of the activity page: type, minutes, intensity, calories
ActivityInputs == {<<"Swimming", 30, "Moderate", 245>>}

\* pages/4_Activity_Tracker.py: pressed says whether "Save Activity" was pressed
ActivityTrackerRun(s, reach, pressed, a) ==
    IF ~ImportOK("4_Activity_Tracker") THEN ImportFailed(s)
    ELSE IF ~LoggedIn(session[s]) THEN Refused(s)
    ELSE IF "user_id" \notin session[s].keys \/ session[s].user_id = None
    THEN Expired(s)
    ELSE
        LET lt == init_db(liteTables, reach)
            sv == save_activity(lite, lt, pg, pgTables, reach, clock,
                                session[s].user_id, a[1], a[2], a[3], a[4], "")
        IN  IF ~pressed
            THEN [Idle(s) EXCEPT !.liteTables = lt,
                                 !.calls = <<"init_db", "get_activity_data">>,
                                 !.shown = "Physical Activity Tracker"]
            ELSE [Idle(s) EXCEPT !.liteTables = lt, !.lite = sv.lite, !.pg = sv.pg,
                                 !.calls = <<"init_db", "save_activity">>,
                                 !.shown = IF sv.ok THEN "rerun"
                                           ELSE "Failed to save activity."]

Greeting ==
    [role |-> "assistant",
     content |-> Text("Hi! I'm your Heart Assistant. How can I help you track your health today?", <<>>)]

\* pages/5_Health_Assistant.py: user_input is what st.chat_input returned,
\* the empty text when nothing was submitted
HealthAssistantRun(s, reach, user_input) ==
    IF ~ImportOK("5_Health_Assistant") THEN ImportFailed(s)
    ELSE IF ~LoggedIn(session[s]) THEN Refused(s)
    ELSE
        LET ss == session[s]
            uid == ss.user_id
            t == ensure_tables_exist(liteTables, pgTables, reach)
            first == "chat_history" \notin ss.keys
            loaded == P5_load_chat_history(pg, t.pgTables, reach, uid)
            history == IF ~first THEN ss.chat_history
                       ELSE IF loaded = <<>> THEN <<Greeting>> ELSE loaded
            pre == [Idle(s) EXCEPT
                      !.liteTables = t.liteTables,
                      !.pgTables = t.pgTables,
                      !.session = [ss EXCEPT !.keys = @ \cup {"chat_history"},
                                             !.chat_history = history],
                      !.calls = IF first
                                THEN <<"ensure_tables_exist", "load_chat_history">>
                                ELSE <<"ensure_tables_exist">>,
                      !.shown = "chat_history"]
            p1 == P5_save_chat_message(pg, t.pgTables, reach, clock, uid, "user",
                                       Typed(user_input))
            h == process_user_input(p1, t.pgTables, reach, clock, user_input, uid)
            p2 == P5_save_chat_message(h.pg, t.pgTables, reach, clock, uid, "assistant",
                                       h.reply)
        IN  IF user_input = <<>>
            THEN pre
            ELSE [pre EXCEPT
                    !.pg = p2,
                    !.session = [@ EXCEPT !.chat_history =
                                   @ \o <<[role |-> "user", content |-> Typed(user_input)],
                                          [role |-> "assistant", content |-> h.reply]>>],
                    !.calls = @ \o <<"save_chat_message", Route(user_input),
                                     "save_chat_message">>,
                    !.shown = "rerun",
                    !.ret = <<h.reply>>]

Dashboard(s) == \E reach \in Reach : Commit(s, DashboardRun(s, reach))

RiskAssessment(s, submitted, vitals, model) ==
    \E reach \in Reach : Commit(s, RiskAssessmentRun(s, reach, submitted, vitals, model))

BPMonitoring(s, pressed, systolic, diastolic) ==
    \E reach \in Reach : Commit(s, BPMonitoringRun(s, reach, pressed, systolic, diastolic))

ActivityTracker(s, pressed, a) ==
    \E reach \in Reach : Commit(s, ActivityTrackerRun(s, reach, pressed, a))

HealthAssistant(s, user_input) ==
    \E reach \in Reach : Commit(s, HealthAssistantRun(s, reach, user_input))

\* the texts of at most n words of Words, separated by one blank
RECURSIVE Phrases(_)
Phrases(n) ==
    IF n = 0 THEN {<<>>}
    ELSE Phrases(n - 1) \cup
         {IF ph = <<>> THEN w ELSE ph \o <<" ">> \o w : ph \in Phrases(n - 1), w \in Words}

\* the number inputs of the blood pressure page (a sample of 80..250, 40..150)
SysInputs == {150}
DiaInputs == {85}

HarnessVars == <<bpIn, bpOut, rtIn, rtOut, dbOut, chatOut, histOut>>

AppNext ==
    \/ \E s \in Sessions : AppView(s)
    \/ \E s \in Sessions, f \in LoginForms : AppLogin(s, f[1], f[2])
    \/ \E s \in Sessions, f \in SignupInputs : AppSignup(s, f[1], f[2], f[3])
    \/ \E s \in Sessions : AppLogout(s)
    \/ \E s \in Sessions : Dashboard(s)
    \/ \E s \in Sessions, submitted \in BOOLEAN, v \in Vitals, m \in ModelOutcomes :
          RiskAssessment(s, submitted, v, m)
    \/ \E s \in Sessions, pressed \in BOOLEAN, sy \in SysInputs, di \in DiaInputs :
          BPMonitoring(s, pressed, sy, di)
    \/ \E s \in Sessions, pressed \in BOOLEAN, a \in ActivityInputs :
          ActivityTracker(s, pressed, a)
    \/ \E s \in Sessions, user_input \in ChatInputs \cup {<<>>} : HealthAssistant(s, user_input)

Next == AppNext /\ UNCHANGED HarnessVars

Spec == Init /\ [][Next]_vars

-----------------------------------------------------------------------------
(* classify_bp applied to every pair of readings up to the bounds *)

ClassifyInit ==
    /\ AppInit
    /\ bpIn \in (0..MaxSys) \X (0..MaxDia)
    /\ bpOut = [category |-> "", color |-> ""]
    /\ rtIn = <<>>
    /\ rtOut = ""
    /\ dbOut = NoCall
    /\ chatOut = NoChat
    /\ histOut = NoLoad

Classify ==
    /\ bpOut.category = ""
    /\ bpOut' = classify_bp(bpIn[1], bpIn[2])
    /\ UNCHANGED <<appVars, bpIn, rtIn, rtOut, dbOut, chatOut, histOut>>

SpecClassify == ClassifyInit /\ [][Classify]_vars

(* the router of process_user_input applied to every phrase up to the bound *)

RouteInit ==
    /\ AppInit
    /\ bpIn = <<0, 0>>
    /\ bpOut = [category |-> "", color |-> ""]
    /\ rtIn \in Phrases(MaxWords)
    /\ rtOut = ""
    /\ dbOut = NoCall
    /\ chatOut = NoChat
    /\ histOut = NoLoad

RouteStep ==
    /\ rtOut = ""
    /\ rtOut' = Route(rtIn)
    /\ UNCHANGED <<appVars, bpIn, bpOut, rtIn, dbOut, chatOut, histOut>>

SpecRoute == RouteInit /\ [][RouteStep]_vars

(* the storage functions of utils/database.py called directly, as test_db.py *)
(* calls init_db and get_connection, in a store whose PostgreSQL tables the  *)
(* pages create                                                              *)

\* the user the records are saved for
StoreUsers == {1}

\* the reading, activity, cholesterol panel, message and prediction saved
BpArgs == <<120, 80, 72, "">>
ActivityArgs == <<"Walking", 30, "Light", None, "">>
CholesterolArgs == <<200, 110, None, None, "">>
ChatArgs == <<"user", Typed(SayHello)>>
PredictionArgs == <<50, 200, 120, 1, 75>>

\* the state after a call of utils/database and the record of the call
StoreCommit(fn, reach, l2, lt2, p2, pt2, ok) ==
    /\ TotalRows(l2) + TotalRows(p2) <= MaxSaved
    /\ lite' = l2
    /\ liteTables' = lt2
    /\ pg' = p2
    /\ pgTables' = pt2
    /\ dbOut' = [fn |-> fn, conn |-> get_connection(reach), ok |-> ok,
                 added |-> (TotalRows(l2) + TotalRows(p2))
                           - (TotalRows(lite) + TotalRows(pg))]
    /\ UNCHANGED <<users, session, clock, bpIn, bpOut, rtIn, rtOut, chatOut, histOut>>

\* test_db.py: init_db(), conn = get_connection(), conn.close()
TestDb ==
    \E reach \in Reach :
        StoreCommit("test_db", reach, lite, init_db(liteTables, reach), pg, pgTables,
                    get_connection(reach) # "none")

\* ensure_tables_exist() of the assistant page
StoreEnsureTablesExist ==
    \E reach \in Reach :
        LET t == ensure_tables_exist(liteTables, pgTables, reach)
        IN  StoreCommit("ensure_tables_exist", reach, lite, t.liteTables, pg, t.pgTables,
                        get_connection(reach) # "none")

\* ensure_db_setup() of the risk page
StoreEnsureDbSetup ==
    \E reach \in Reach :
        LET t == ensure_db_setup(liteTables, pgTables, reach)
        IN  StoreCommit("ensure_db_setup", reach, lite, t.liteTables, pg, t.pgTables,
                        get_connection(reach) # "none")

StoreSaveBloodPressure ==
    \E reach \in Reach, u \in StoreUsers :
        LET r == save_blood_pressure(lite, liteTables, pg, pgTables, reach, clock, u,
                                     BpArgs[1], BpArgs[2], BpArgs[3], BpArgs[4])
        IN  StoreCommit("save_blood_pressure", reach, r.lite, liteTables, r.pg, pgTables, r.ok)

StoreSaveActivity ==
    \E reach \in Reach, u \in StoreUsers :
        LET r == save_activity(lite, liteTables, pg, pgTables, reach, clock, u,
                               ActivityArgs[1], ActivityArgs[2], ActivityArgs[3],
                               ActivityArgs[4], ActivityArgs[5])
        IN  StoreCommit("save_activity", reach, r.lite, liteTables, r.pg, pgTables, r.ok)

StoreSaveCholesterol ==
    \E reach \in Reach, u \in StoreUsers :
        LET r == save_cholesterol(lite, liteTables, pg, pgTables, reach, clock, u,
                                  CholesterolArgs[1], CholesterolArgs[2],
                                  CholesterolArgs[3], CholesterolArgs[4],
                                  CholesterolArgs[5])
        IN  StoreCommit("save_cholesterol", reach, r.lite, r.liteTables, r.pg, pgTables, r.ok)

StoreSaveChatMessage ==
    \E reach \in Reach, u \in StoreUsers :
        LET r == save_chat_message(lite, liteTables, pg, pgTables, reach, clock, u,
                                   ChatArgs[1], ChatArgs[2])
        IN  StoreCommit("save_chat_message", reach, r.lite, liteTables, r.pg, pgTables, r.ok)

StoreLogPrediction ==
    \E reach \in Reach, u \in StoreUsers :
        LET r == log_prediction_to_db(lite, liteTables, pg, pgTables, reach, clock, u,
                                      PredictionArgs[1], PredictionArgs[2],
                                      PredictionArgs[3], PredictionArgs[4],
                                      PredictionArgs[5])
        IN  StoreCommit("log_prediction_to_db", reach, r.lite, liteTables, r.pg, pgTables, r.ok)

StoreNext ==
    \/ TestDb
    \/ StoreEnsureTablesExist
    \/ StoreEnsureDbSetup
    \/ StoreSaveBloodPressure
    \/ StoreSaveActivity
    \/ StoreSaveCholesterol
    \/ StoreSaveChatMessage
    \/ StoreLogPrediction

SpecStore == Init /\ [][StoreNext]_vars

(* process_user_input of the assistant page applied to one text again and  *)
(* again, each time after ensure_tables_exist() as render() calls it        *)

ChatInit ==
    /\ AppInit
    /\ bpIn = <<0, 0>>
    /\ bpOut = [category |-> "", color |-> ""]
    /\ rtIn \in ChatSamples
    /\ rtOut = ""
    /\ dbOut = NoCall
    /\ chatOut = NoChat
    /\ histOut = NoLoad

\* the message rtIn is sent to the assistant: render creates the tables and
\* the handler answers; afterwards no time or more than a week passes
ChatStep ==
    \E reach \in Reach, u \in StoreUsers, days \in {0, Week + 1} :
        LET t == ensure_tables_exist(liteTables, pgTables, reach)
            h == process_user_input(pg, t.pgTables, reach, clock, rtIn, u)
        IN  /\ TotalRows(h.pg) <= MaxSaved
            /\ clock + days <= MaxDays
            /\ liteTables' = t.liteTables
            /\ pgTables' = t.pgTables
            /\ pg' = h.pg
            /\ clock' = clock + days
            /\ chatOut' = [branch |-> Route(rtIn), conn |-> get_connection(reach),
                           reply |-> h.reply, before |-> pg, now |-> clock]
            /\ UNCHANGED <<users, lite, session, bpIn, bpOut, rtIn, rtOut, dbOut, histOut>>

SpecChat == ChatInit /\ [][ChatStep]_vars

\* the users whose messages are stored: the one who opens the assistant and
\* another one
HistoryUsers == {1, 2}

\* the n-th message stored is the text of n, from the user and the assistant
\* in turn
NthMessage(n) == [role |-> IF n % 2 = 1 THEN "user" ELSE "assistant",
                  message |-> Typed(str(n))]

\* save_chat_message of the assistant page, a day after the last message
HistorySave ==
    \E reach \in Reach, u \in HistoryUsers :
        LET t == ensure_tables_exist(liteTables, pgTables, reach)
            m == NthMessage(Len(pg["chat_history"]) + 1)
            p2 == P5_save_chat_message(pg, t.pgTables, reach, clock + 1, u, m.role, m.message)
        IN  /\ Len(p2["chat_history"]) <= MaxStored
            /\ Len(WhereUser(p2["chat_history"], 2)) <= MaxOther
            /\ liteTables' = t.liteTables
            /\ pgTables' = t.pgTables
            /\ pg' = p2
            /\ clock' = IF p2 = pg THEN clock ELSE clock + 1
            /\ histOut' = NoLoad
            /\ UNCHANGED <<users, lite, session, bpIn, bpOut, rtIn, rtOut, dbOut, chatOut>>

\* render of the assistant page in a session of user_id without chat_history,
\* and load_chat_history of utils/database with its default limit
HistoryLoad ==
    \E reach \in Reach, u \in HistoryUsers :
        LET t == ensure_tables_exist(liteTables, pgTables, reach)
            loaded == P5_load_chat_history(pg, t.pgTables, reach, u)
            df == load_chat_history(lite, t.liteTables, pg, t.pgTables, reach, u, ChatLimit)
        IN  /\ liteTables' = t.liteTables
            /\ pgTables' = t.pgTables
            /\ histOut' = [user_id |-> u, conn |-> get_connection(reach),
                           loaded |-> loaded, df |-> df,
                           chat_history |-> IF loaded = <<>> THEN <<Greeting>> ELSE loaded]
            /\ UNCHANGED <<users, lite, pg, session, clock, bpIn, bpOut, rtIn,
                           rtOut, dbOut, chatOut>>

HistoryNext == HistorySave \/ HistoryLoad

SpecHistory == Init /\ [][HistoryNext]_vars

-----------------------------------------------------------------------------
(* Properties *)

HandlerOrder == <<"process_blood_pressure", "process_activity",
                  "process_cholesterol", "process_status_check">>

HandlerKeywords(i) ==
    CASE i = 1 -> BpKeywords
      [] i = 2 -> ActivityKeywords
      [] i = 3 -> CholesterolKeywords
      [] i = 4 -> StatusKeywords

\* the handlers whose keyword set matches the lower-cased text
Matching(text) == {i \in 1..4 : AnyIn(HandlerKeywords(i), lower(text))}

\* C1: process_user_input takes exactly one branch for every input: the first
\* of BP, activity, cholesterol, status whose keyword set matches the
\* lower-cased input, and the fallback when none matches.
C1_FirstMatchRouting ==
    rtOut # "" =>
        IF Matching(rtIn) = {}
        THEN rtOut = "fallback"
        ELSE \E i \in Matching(rtIn) :
                /\ \A j \in Matching(rtIn) : i <= j
                /\ rtOut = HandlerOrder[i]

\* an input matching two keyword sets, in upper case, went to the earlier one
C1_Witness ==
    /\ rtOut = "process_blood_pressure"
    /\ Matching(rtIn) = {1, 3}
    /\ rtIn # lower(rtIn)

Rank(category) == CHOOSE i \in 1..Len(Categories) : Categories[i] = category

\* the staging of the AHA convention
AhaCategory(systolic, diastolic) ==
    IF systolic >= 180 \/ diastolic >= 120 THEN "Hypertensive Crisis"
    ELSE IF systolic >= 140 \/ diastolic >= 90 THEN "High BP - Stage 2"
    ELSE IF systolic >= 130 \/ diastolic >= 80 THEN "High BP - Stage 1"
    ELSE IF systolic >= 120 THEN "Elevated"
    ELSE "Normal"

\* C2: classify_bp stages every pair per the AHA convention: Normal below
\* 120 and 80, Elevated for 120-129 and below 80, Stage 1 for 130-139 or
\* 80-89, Stage 2 from 140 or 90, Crisis from 180 or 120, the higher band
\* winning.
C2_AhaStaging ==
    bpOut.category # "" => bpOut.category = AhaCategory(bpIn[1], bpIn[2])

\* C3: classify_bp returns one of the five categories, and raising systolic
\* with diastolic fixed, or diastolic with systolic fixed, never lowers the
\* rank Normal < Elevated < Stage 1 < Stage 2 < Crisis of the result.
C3_MonotoneStaging ==
    bpOut.category # "" =>
        /\ \E i \in 1..Len(Categories) : Categories[i] = bpOut.category
        /\ \A systolic \in bpIn[1]..MaxSys :
              Rank(bpOut.category) <= Rank(classify_bp(systolic, bpIn[2]).category)
        /\ \A diastolic \in bpIn[2]..MaxDia :
              Rank(bpOut.category) <= Rank(classify_bp(bpIn[1], diastolic).category)

\* a Stage 2 reading that one more mmHg of systolic makes a crisis
C3_Witness ==
    /\ bpOut.category = "High BP - Stage 2"
    /\ bpIn[1] < MaxSys
    /\ classify_bp(bpIn[1] + 1, bpIn[2]).category = "Hypertensive Crisis"

\* old is an initial segment of new
IsPrefix(old, new) ==
    /\ Len(old) <= Len(new)
    /\ \A i \in 1..Len(old) : new[i] = old[i]

\* P holds of every run of app.py that session s can start in this state
ForAllAppRuns(s, P(_)) ==
    \A reach \in Reach :
        /\ P(AppViewRun(s, reach))
        /\ \A f \in LoginForms : P(AppLoginRun(s, reach, f[1], f[2]))
        /\ \A f \in SignupForms : P(AppSignupRun(s, reach, f[1], f[2], f[3]))
        /\ P(AppLogoutRun(s, reach))

\* P holds of every run of every page that session s can start in this state
ForAllPageRuns(s, P(_)) ==
    \A reach \in Reach :
        /\ P(DashboardRun(s, reach))
        /\ \A submitted \in BOOLEAN, v \in Vitals, m \in ModelOutcomes :
              P(RiskAssessmentRun(s, reach, submitted, v, m))
        /\ \A pressed \in BOOLEAN, sy \in SysInputs, di \in DiaInputs :
              P(BPMonitoringRun(s, reach, pressed, sy, di))
        /\ \A pressed \in BOOLEAN, a \in ActivityInputs :
              P(ActivityTrackerRun(s, reach, pressed, a))
        /\ \A user_input \in ChatTexts \cup {<<>>} :
              P(HealthAssistantRun(s, reach, user_input))

\* C4: every record that is in a store is still there with unchanged fields
\* after any run that can start in this state: sign-up, login, logout and
\* the main view, BP, activity, chat, cholesterol and risk-assessment runs
\* only append.  Every step of the system commits one of these runs.
C4_AppendOnly ==
    \A s \in Sessions :
        LET kept(run) ==
              \A r \in {run} :
                 /\ IsPrefix(users, r.users)
                 /\ \A t \in RecordTables :
                       IsPrefix(pg[t], r.pg[t]) /\ IsPrefix(lite[t], r.lite[t])
                 /\ liteTables \subseteq r.liteTables
                 /\ pgTables \subseteq r.pgTables
        IN  ForAllAppRuns(s, kept) /\ ForAllPageRuns(s, kept)

\* both users exist and a table has been appended to after its first row
C4_Witness ==
    /\ Len(users) = 2
    /\ Len(pg["chat_history"]) >= 2

\* C5: every record a page run writes carries the string form of the user_id
\* of the session that runs the page, that session is logged in, and the id
\* is the id of an existing user record.
C5_WrittenForSessionUser ==
    \A s \in Sessions :
        LET mine(row) ==
              /\ LoggedIn(session[s])
              /\ row.user_id = str(session[s].user_id)
              /\ \E k \in 1..Len(users) : users[k].id = session[s].user_id
            owned(run) ==
              \A r \in {run} :
                 \A t \in RecordTables :
                    /\ \A i \in Len(pg[t]) + 1..Len(r.pg[t]) : mine(r.pg[t][i])
                    /\ \A i \in Len(lite[t]) + 1..Len(r.lite[t]) : mine(r.lite[t][i])
        IN  ForAllPageRuns(s, owned)

\* a BP reading logged through the chat of one session while the other
\* session is logged in as another user
C5_Witness ==
    \E s, o \in Sessions :
        /\ LoggedIn(session[s]) /\ LoggedIn(session[o])
        /\ session[s].user_id # session[o].user_id
        /\ \E i \in 1..Len(pg["blood_pressure"]) :
              pg["blood_pressure"][i].user_id = str(session[s].user_id)

OnlyOf(rows, user_id) == \A i \in 1..Len(rows) : rows[i].user_id = str(user_id)

\* C6: every read issued for a user returns only records whose user_id is
\* that user's id, whatever the two users have written and whichever store
\* the connection reaches.
C6_ReadsOnlyOwnRecords ==
    \A k \in 1..Len(users), reach \in Reach :
        LET uid == users[k].id
        IN  /\ OnlyOf(get_prediction_history(lite, liteTables, pg, pgTables, reach, uid), uid)
            /\ OnlyOf(get_recent_logs(pg, pgTables, reach, uid), uid)
            /\ OnlyOf(P5_load_chat_history_rows(pg, pgTables, reach, uid), uid)
            /\ OnlyOf(load_chat_history(lite, liteTables, pg, pgTables, reach, uid, ChatLimit), uid)
            /\ OnlyOf(get_weekly_bp_summary(lite, liteTables, pg, pgTables, reach, clock, uid), uid)
            /\ OnlyOf(status_rows(pg, pgTables, reach, clock, uid), uid)

\* predictions of two users are in the table, and a read returns one of them
C6_Witness ==
    /\ Len(pg["predictions_history"]) >= 2
    /\ pg["predictions_history"][1].user_id # pg["predictions_history"][2].user_id
    /\ Len(get_recent_logs(pg, pgTables, [pg |-> TRUE, lite |-> TRUE], 1)) = 1

\* C7: when the session's logged_in flag is absent or false, a page stops
\* before any store read or write and before any page content, and the main
\* app shows only the login/sign-up view.
C7_PagesRefuseWithoutLogin ==
    \A s \in Sessions :
        ~LoggedIn(session[s]) =>
            LET stopped(run) ==
                  \A r \in {run} :
                     /\ r.calls = <<>>
                     /\ r.shown \in {"Please log in first!", "ImportError"}
                     /\ r.users = users /\ r.pg = pg /\ r.lite = lite
                     /\ r.pgTables = pgTables /\ r.liteTables = liteTables
                     /\ r.session = session[s]
            IN  /\ ForAllPageRuns(s, stopped)
                /\ \A reach \in Reach :
                      /\ AppViewRun(s, reach).shown = "login_ui"
                      /\ AppViewRun(s, reach).calls = <<"init_db">>

\* a session that has logged out while records are in the store
C7_Witness ==
    \E s \in Sessions :
        /\ "logged_in" \in session[s].keys
        /\ ~session[s].logged_in
        /\ TotalRows(pg) > 0

\* C8: create_user persists a hash of the password, never the plaintext, and
\* verify_user compares the hash of the supplied password.
C8_PasswordStoredHashed ==
    \A i \in 1..Len(users) :
        /\ \E f \in SignupForms : users[i].password = hash_password(f[2])
        /\ \A f \in SignupForms : users[i].password # f[2]

\* C9: verify_user returns (True, id) exactly when the store answers and a
\* user record with that username and that password exists, id being its
\* id; otherwise it returns (False, None); a login run changes no table.
C9_VerifyUser ==
    \A f \in LoginForms, reach \in Reach :
        LET v == verify_user(users, liteTables, reach, f[1], f[2])
            match == {i \in 1..Len(users) : /\ users[i].username = f[1]
                                            /\ users[i].password = f[2]}
        IN  /\ IF reach.lite /\ "users" \in liteTables /\ match # {}
               THEN v[1] /\ \E i \in match : v[2] = users[i].id
               ELSE ~v[1] /\ v[2] = None
            /\ \A s \in Sessions :
                  LET run == AppLoginRun(s, reach, f[1], f[2])
                  IN  run.users = users /\ run.pg = pg /\ run.lite = lite

\* the second user is logged in under its own id while the first exists
C9_Witness ==
    \E s \in Sessions :
        /\ LoggedIn(session[s])
        /\ Len(users) = 2
        /\ session[s].user_id = users[2].id
        /\ session[s].username = users[2].username

UsernamesUnique ==
    \A i, j \in 1..Len(users) : users[i].username = users[j].username => i = j

\* C10 as claimed: usernames are unique, and create_user on an existing
\* username returns (False, "Username already exists") and leaves the users
\* table unchanged.
C10_DuplicateAlwaysReported ==
    /\ UsernamesUnique
    /\ \A f \in SignupForms, reach \in Reach :
          LET c == create_user(users, liteTables, reach, f[1], f[2])
          IN  (\E i \in 1..Len(users) : users[i].username = f[1]) =>
                 /\ ~c.success
                 /\ c.users = users
                 /\ c.result = "Username already exists"

\* C10 as amended: usernames are unique, and create_user on an existing
\* username fails and leaves the users table unchanged; it returns
\* "Username already exists" when the INSERT reaches the SQLite file and the
\* text of the error when the file cannot be opened.
C10_UniqueUsernames ==
    /\ UsernamesUnique
    /\ \A f \in SignupForms, reach \in Reach :
          LET c == create_user(users, liteTables, reach, f[1], f[2])
          IN  (\E i \in 1..Len(users) : users[i].username = f[1]) =>
                 /\ ~c.success
                 /\ c.users = users
                 /\ reach.lite => c.result = "Username already exists"
                 /\ ~reach.lite => c.result # "Username already exists"

\* both usernames are taken and a session is on the sign-up form
C10_Witness ==
    /\ Len(users) = 2
    /\ \E s \in Sessions : "logged_in" \in session[s].keys /\ ~session[s].logged_in

\* the INSERT of a save on this connection finds its table
Insertable(reach, table) ==
    \/ get_connection(reach) = "sqlite" /\ table \in liteTables
    \/ get_connection(reach) = "pg" /\ table \in pgTables

\* the four saves of utils/database that return a result, called in this state
SaveBp(reach, u) ==
    save_blood_pressure(lite, liteTables, pg, pgTables, reach, clock, u,
                        BpArgs[1], BpArgs[2], BpArgs[3], BpArgs[4])
SaveAct(reach, u) ==
    save_activity(lite, liteTables, pg, pgTables, reach, clock, u,
                  ActivityArgs[1], ActivityArgs[2], ActivityArgs[3],
                  ActivityArgs[4], ActivityArgs[5])
SaveChol(reach, u) ==
    save_cholesterol(lite, liteTables, pg, pgTables, reach, clock, u,
                     CholesterolArgs[1], CholesterolArgs[2], CholesterolArgs[3],
                     CholesterolArgs[4], CholesterolArgs[5])
SaveChat(reach, u) ==
    save_chat_message(lite, liteTables, pg, pgTables, reach, clock, u,
                      ChatArgs[1], ChatArgs[2])
LogPred(reach, u) ==
    log_prediction_to_db(lite, liteTables, pg, pgTables, reach, clock, u,
                         PredictionArgs[1], PredictionArgs[2], PredictionArgs[3],
                         PredictionArgs[4], PredictionArgs[5])

\* C11: when the connection cannot be obtained or the INSERT fails, the
\* saves of utils/database that return a result return False and add no
\* record, and a read whose SELECT fails returns an empty result; a save
\* that returned False has added nothing.
C11_SaveFailuresContained ==
    /\ \A reach \in Reach, u \in StoreUsers :
          LET quiet(r, failed) ==
                /\ failed => ~r.ok
                /\ ~r.ok => r.lite = lite /\ r.pg = pg
          IN  /\ quiet(SaveBp(reach, u), ~Insertable(reach, "blood_pressure"))
              /\ quiet(SaveAct(reach, u), ~Insertable(reach, "activities"))
              /\ quiet(SaveChol(reach, u),
                       /\ get_connection(reach) # "sqlite"
                       /\ ~Insertable(reach, "cholesterol_readings"))
              /\ quiet(LogPred(reach, u), ~Insertable(reach, "predictions_history"))
              /\ ~Insertable(reach, "predictions_history") =>
                    get_prediction_history(lite, liteTables, pg, pgTables, reach, u) = <<>>
              /\ ~Insertable(reach, "chat_history") =>
                    load_chat_history(lite, liteTables, pg, pgTables, reach, u, ChatLimit) = <<>>
              /\ ~Insertable(reach, "blood_pressure") =>
                    get_weekly_bp_summary(lite, liteTables, pg, pgTables, reach, clock, u) = <<>>
    /\ dbOut.fn \in {"save_blood_pressure", "save_activity", "save_cholesterol",
                     "log_prediction_to_db"} =>
          IF dbOut.ok THEN dbOut.added = 1 ELSE dbOut.added = 0

\* save_activity without a connection returned False while records are stored
C11_Witness ==
    /\ dbOut.fn = "save_activity"
    /\ dbOut.conn = "none"
    /\ ~dbOut.ok
    /\ TotalRows(lite) + TotalRows(pg) > 0

\* get_connection as the claim has it and as the code has it
PostgresFirst ==
    \A reach \in Reach :
        /\ reach.pg => get_connection(reach) = "pg"
        /\ ~reach.pg /\ reach.lite => get_connection(reach) = "sqlite"
        /\ get_connection(reach) = "none" <=> ~reach.pg /\ ~reach.lite

\* C12 as claimed: get_connection returns PostgreSQL when it is reachable,
\* SQLite when PostgreSQL fails and SQLite succeeds, None only when both
\* fail; after init_db the returned connection is not None and is closed.
C12_ConnectionAfterInitDb ==
    /\ PostgresFirst
    /\ dbOut.fn = "test_db" => dbOut.conn # "none" /\ dbOut.ok

\* C12 as amended: the same order of preference; after init_db the returned
\* connection is not None, and is closed, exactly when one of the two stores
\* can be reached: init_db swallows its own failure.
C12_PostgresFirstFallback ==
    /\ PostgresFirst
    /\ dbOut.fn = "test_db" => (dbOut.ok <=> dbOut.conn # "none")
    /\ \A reach \in Reach :
          LET after == init_db(liteTables, reach)
          IN  /\ reach.pg \/ reach.lite => get_connection(reach) # "none"
              /\ reach.lite => "users" \in after
              /\ ~reach.lite => after = liteTables

\* test_db.py ran with PostgreSQL down and got, and closed, the SQLite connection
C12_Witness ==
    /\ dbOut.fn = "test_db"
    /\ dbOut.conn = "sqlite"
    /\ dbOut.ok
    /\ "users" \in liteTables

\* the table after a save is the table before it and one record with the fields
Appended(before, after, fields) ==
    /\ Len(after) = Len(before) + 1
    /\ SubSeq(after, 1, Len(before)) = before
    /\ \A k \in DOMAIN fields : after[Len(after)][k] = fields[k]
    /\ "timestamp" \in DOMAIN after[Len(after)]

\* the store the connection leads to
Backend(reach, l, p) == IF get_connection(reach) = "sqlite" THEN l ELSE p

\* C13: once init_db has run, whichever backend get_connection returns,
\* each save of utils/database appends exactly one record with the given
\* fields and a timestamp, and those that return a result return True.
C13_SavesWorkOnBothBackends ==
    "users" \in liteTables =>
        \A reach \in Reach, u \in StoreUsers :
            get_connection(reach) # "none" =>
                LET one(r, table, fields) ==
                      /\ r.ok
                      /\ Appended(Backend(reach, lite, pg)[table],
                                  Backend(reach, r.lite, r.pg)[table], fields)
                IN  /\ one(SaveBp(reach, u), "blood_pressure",
                           [user_id |-> str(u), systolic |-> BpArgs[1],
                            diastolic |-> BpArgs[2], heart_rate |-> BpArgs[3]])
                    /\ one(SaveAct(reach, u), "activities",
                           [user_id |-> str(u), activity_type |-> ActivityArgs[1],
                            duration |-> ActivityArgs[2], intensity |-> ActivityArgs[3]])
                    /\ one(SaveChol(reach, u), "cholesterol_readings",
                           [user_id |-> str(u), total_cholesterol |-> CholesterolArgs[1],
                            ldl |-> CholesterolArgs[2]])
                    /\ one(SaveChat(reach, u), "chat_history",
                           [user_id |-> str(u), role |-> ChatArgs[1], message |-> ChatArgs[2]])
                    /\ one(LogPred(reach, u), "predictions_history",
                           [user_id |-> str(u), age |-> PredictionArgs[1],
                            predicted_target |-> PredictionArgs[4]])

\* s[i..j-1] is white space only
Blank(s, i, j) == \A k \in i..(j - 1) : IsSpace(s[k])

\* the ways s holds two groups of two or three digits around '/' or 'over':
\* where the first group starts, its length, where the second starts, its length
BpPairs(s) ==
    {m \in (1..Len(s)) \X {2, 3} \X (1..Len(s)) \X {2, 3} :
        /\ AllDigits(s, m[1], m[2])
        /\ AllDigits(s, m[3], m[4])
        /\ \E j \in (m[1] + m[2])..m[3], w \in {<<"/">>, <<"o", "v", "e", "r">>} :
              /\ Blank(s, m[1] + m[2], j)
              /\ StartsAt(s, j, w)
              /\ j + Len(w) <= m[3]
              /\ Blank(s, j + Len(w), m[3])}

\* the pair a leftmost, greedy search reports
FirstPair(s) ==
    CHOOSE m \in BpPairs(s) :
        \A o \in BpPairs(s) :
            \/ m[1] < o[1]
            \/ m[1] = o[1] /\ m[2] > o[2]
            \/ m[1] = o[1] /\ m[2] = o[2] /\ m[4] >= o[4]

BpHelp == Text("Could not parse BP. Try: 'My BP is 120/80'", <<>>)

\* the BP handler logged the first pair of the input and said so
LoggedFirstPair ==
    LET s == lower(rtIn)
        m == FirstPair(s)
        sys == SubSeq(s, m[1], m[1] + m[2] - 1)
        dia == SubSeq(s, m[3], m[3] + m[4] - 1)
        old == chatOut.before["blood_pressure"]
        new == pg["blood_pressure"]
    IN  /\ Len(new) = Len(old) + 1
        /\ SubSeq(new, 1, Len(old)) = old
        /\ str(new[Len(new)].systolic) = sys
        /\ str(new[Len(new)].diastolic) = dia
        /\ \E u \in StoreUsers : new[Len(new)].user_id = str(u)
        /\ \A t \in RecordTables \ {"blood_pressure"} : pg[t] = chatOut.before[t]
        /\ chatOut.reply.args = <<sys, dia>>
        /\ chatOut.reply.fmt = "Logged BP: **{sys}/{dia} mmHg**. Great job tracking your levels!"

\* C14: an input routed to the BP handler that holds two groups
\* of 2 to 3 digits around '/' or 'over' appends exactly one BP record with
\* that pair and the reply reports the pair; otherwise nothing is written
\* and the fixed help string is the reply.
C14_ChatBpAlwaysLogged ==
    chatOut.branch = "process_blood_pressure" =>
        IF BpPairs(lower(rtIn)) # {}
        THEN LoggedFirstPair
        ELSE pg = chatOut.before /\ chatOut.reply = BpHelp

\* the run left the users table and the login of session s as they were
SameLogin(s, run) ==
    \A r \in {run} :
        /\ r.users = users
        /\ r.session.logged_in = session[s].logged_in
        /\ r.session.user_id = session[s].user_id
        /\ r.session.username = session[s].username

Called(run, fn) == \E i \in 1..Len(run.calls) : run.calls[i] = fn

\* C15: in a session that is not logged in, a login with an empty field or
\* with credentials no user record has, and a sign-up with an empty field,
\* mismatching passwords, a password shorter than 6 characters or an
\* existing username, leave logged_in, user_id, username and the users
\* table unchanged; the three form-validation failures never call
\* create_user.
C15_RejectedAuthChangesNothing ==
    \A s \in Sessions, reach \in Reach :
        ~LoggedIn(session[s]) =>
            /\ \A f \in LoginForms :
                  \/ \E k \in 1..Len(users) : /\ f[1] # "" /\ f[2] # ""
                                               /\ users[k].username = f[1]
                                               /\ users[k].password = f[2]
                  \/ SameLogin(s, AppLoginRun(s, reach, f[1], f[2]))
            /\ \A f \in SignupForms :
                  LET invalid == \/ f[1] = "" \/ f[2] = "" \/ f[3] = ""
                                 \/ f[2] # f[3]
                                 \/ Len(f[2]) < 6
                      taken == \E k \in 1..Len(users) : users[k].username = f[1]
                      run == AppSignupRun(s, reach, f[1], f[2], f[3])
                  IN  /\ invalid \/ taken => SameLogin(s, run)
                      /\ invalid => ~Called(run, "create_user")
                      /\ ~invalid => Called(run, "create_user")

\* a session on the login view with its defaults set while the other session
\* is logged in as the only user
C15_Witness ==
    \E s, o \in Sessions :
        /\ "user_id" \in session[s].keys
        /\ ~session[s].logged_in
        /\ session[s].user_id = None
        /\ Len(users) = 1
        /\ LoggedIn(session[o])
        /\ session[o].username = users[1].username

\* C16: in every reachable state a session with logged_in true holds a
\* user_id and a username that are not None and are the id and the username
\* of exactly one user record; a session with logged_in false holds None
\* for both; and a sign-up run that succeeds leaves the session logged in
\* under the submitted username with the id create_user returned, which is
\* the id of the record it added.
C16_SessionInvariant ==
    \A s \in Sessions :
        /\ session[s].logged_in =>
              /\ session[s].user_id # None
              /\ session[s].username # NoneStr
              /\ Cardinality({k \in 1..Len(users) :
                                /\ users[k].id = session[s].user_id
                                /\ users[k].username = session[s].username}) = 1
              /\ \A k \in 1..Len(users) :
                    users[k].id = session[s].user_id
                        <=> users[k].username = session[s].username
        /\ ~session[s].logged_in =>
              session[s].user_id = None /\ session[s].username = NoneStr
        /\ \A reach \in Reach, f \in SignupForms :
              LET run == AppSignupRun(s, reach, f[1], f[2], f[3])
                  c == create_user(users, init_db(liteTables, reach), reach, f[1], f[2])
              IN  Called(run, "create_user") /\ c.success =>
                      /\ run.session.logged_in
                      /\ run.session.user_id = c.result
                      /\ run.session.username = f[1]
                      /\ run.users = Append(users, [id |-> c.result, username |-> f[1],
                                                    password |-> f[2]])
                      /\ \A k \in 1..Len(users) : users[k].id # c.result

\* the two sessions are logged in as the two users
C16_Witness ==
    /\ session["s1"].logged_in /\ session["s2"].logged_in
    /\ session["s1"].user_id # session["s2"].user_id
    /\ session["s1"].username # session["s2"].username

\* a step in which a session leaves the logged-in state resets its three
\* keys and touches no table
LogoutResets ==
    \A s \in Sessions :
        session[s].logged_in /\ ~session'[s].logged_in =>
            /\ session'[s].user_id = None
            /\ session'[s].username = NoneStr
            /\ users' = users /\ pg' = pg /\ lite' = lite

\* a step of a session that is and stays logged out writes no record
StaysOut ==
    \A s \in Sessions :
        /\ ~session[s].logged_in
        /\ ~session'[s].logged_in
        /\ session'[s] # session[s]
        => pg' = pg /\ lite' = lite /\ users' = users

\* whatever a logged-out session runs reads and writes no record: its pages
\* stop at once, its runs of app.py reach the users table only
LoggedOutRefused ==
    \A s \in Sessions :
        ~session[s].logged_in =>
            LET refused(run) ==
                  \A r \in {run} :
                     /\ r.calls = <<>>
                     /\ r.pg = pg /\ r.lite = lite /\ r.users = users
                     /\ r.session = session[s]
                     /\ r.shown \in {"Please log in first!", "ImportError"}
                gated(run) ==
                  \A r \in {run} :
                     /\ r.pg = pg /\ r.lite = lite
                     /\ \A i \in 1..Len(r.calls) :
                           r.calls[i] \in {"init_db", "verify_user", "create_user"}
                     /\ r.session.logged_in =>
                           r.shown = "rerun" /\ r.ret[1] = TRUE
            IN  /\ ForAllPageRuns(s, refused)
                /\ \A reach \in Reach :
                      /\ gated(AppViewRun(s, reach))
                      /\ \A f \in LoginForms : gated(AppLoginRun(s, reach, f[1], f[2]))
                      /\ \A f \in SignupForms :
                            gated(AppSignupRun(s, reach, f[1], f[2], f[3]))

\* C17: logout resets logged_in to false and user_id and username to None
\* and touches no table; while the session stays logged out every page run
\* stops before any call and its runs of app.py read and write no record;
\* only a login or sign-up that succeeded logs it in again.
C17_LoggedOutUntilLogin ==
    /\ []LoggedOutRefused
    /\ [][LogoutResets /\ StaysOut]_vars

\* a session that used the assistant and then logged out, its messages stored
C17_Witness ==
    \E s \in Sessions :
        /\ "chat_history" \in session[s].keys
        /\ ~session[s].logged_in
        /\ session[s].user_id = None
        /\ Len(pg["chat_history"]) > 0

\* C18: the chat history of a logged-in session holds only messages of the
\* user logged in.  A reply "Logged BP" is given only after a BP record was
\* written for the user it answers, and records are never removed; so every
\* such reply in st.session_state.chat_history reports a BP record of the
\* session's user.
C18_ChatHistoryOfCurrentUser ==
    \A s \in Sessions :
        LoggedIn(session[s]) =>
            \A i \in 1..Len(session[s].chat_history) :
                LET reply == session[s].chat_history[i].content
                    mine == WhereUser(pg["blood_pressure"], session[s].user_id)
                IN  reply.fmt = "Logged BP: **{sys}/{dia} mmHg**. Great job tracking your levels!" =>
                        \E k \in 1..Len(mine) :
                            reply.args = <<str(mine[k].systolic), str(mine[k].diastolic)>>

\* the two entries a chat run adds for this input and this reply
Exchange(user_input, reply) ==
    <<[role |-> "user", content |-> Typed(user_input)],
      [role |-> "assistant", content |-> reply]>>

\* rows is old followed by the two entries, stored in that order for user_id
PersistedAfter(old, rows, entries, user_id) ==
    /\ Len(rows) = Len(old) + 2
    /\ SubSeq(rows, 1, Len(old)) = old
    /\ \A k \in 1..2 :
          /\ rows[Len(old) + k].role = entries[k].role
          /\ rows[Len(old) + k].message = entries[k].content
          /\ rows[Len(old) + k].user_id = str(user_id)

\* adjacent entries of a chat history differ in role
Alternates(history) ==
    \A i \in 1..(Len(history) - 1) : history[i].role # history[i + 1].role

\* C19 as claimed: a chat run with an input appends the user message and
\* then the reply to the session chat history, which keeps alternating, and
\* persists the same two records in that order for the session user, the
\* user message before the input is processed.
C19_ExchangeAlwaysPersisted ==
    \A s \in Sessions :
        /\ Alternates(session[s].chat_history)
        /\ LoggedIn(session[s]) =>
              \A reach \in Reach, user_input \in ChatTexts :
                 \A r \in {HealthAssistantRun(s, reach, user_input)} :
                    LET n == Len(r.session.chat_history)
                        added == SubSeq(r.session.chat_history, n - 1, n)
                    IN  /\ n >= 3
                        /\ added = Exchange(user_input, r.ret[1])
                        /\ "chat_history" \in session[s].keys =>
                              SubSeq(r.session.chat_history, 1, n - 2)
                                  = session[s].chat_history
                        /\ Alternates(r.session.chat_history)
                        /\ PersistedAfter(pg["chat_history"], r.pg["chat_history"],
                                          added, session[s].user_id)

\* C19 as amended: the two entries are always appended to the session chat
\* history in the order user, assistant, which keeps alternating; the same
\* two records are persisted in that order for the session user when the
\* PostgreSQL connection is obtained, and no chat record is persisted when
\* it is not; save_chat_message is called before and after the handler.
C19_ExchangeAppended ==
    \A s \in Sessions :
        /\ Alternates(session[s].chat_history)
        /\ LoggedIn(session[s]) =>
              \A reach \in Reach, user_input \in ChatTexts :
                 \A r \in {HealthAssistantRun(s, reach, user_input)} :
                    LET n == Len(r.session.chat_history)
                        added == SubSeq(r.session.chat_history, n - 1, n)
                        c == Len(r.calls)
                    IN  /\ n >= 3
                        /\ added = Exchange(user_input, r.ret[1])
                        /\ "chat_history" \in session[s].keys =>
                              SubSeq(r.session.chat_history, 1, n - 2)
                                  = session[s].chat_history
                        /\ Alternates(r.session.chat_history)
                        /\ SubSeq(r.calls, c - 2, c)
                              = <<"save_chat_message", Route(user_input),
                                  "save_chat_message">>
                        /\ IF reach.pg
                           THEN PersistedAfter(pg["chat_history"],
                                               r.pg["chat_history"], added,
                                               session[s].user_id)
                           ELSE r.pg["chat_history"] = pg["chat_history"]

\* a session whose history is the greeting and one exchange, both stored
C19_Witness ==
    \E s \in Sessions :
        /\ LoggedIn(session[s])
        /\ Len(session[s].chat_history) = 3
        /\ PersistedAfter(<<>>, pg["chat_history"],
                          SubSeq(session[s].chat_history, 2, 3), session[s].user_id)

\* the replies that state a reading was logged: table and columns reported
LoggedReplies ==
    {[fmt |-> "Logged BP: **{sys}/{dia} mmHg**. Great job tracking your levels!",
      table |-> "blood_pressure", columns |-> <<"systolic", "diastolic">>],
     [fmt |-> "Logged **{duration} mins** of activity! Keep moving!",
      table |-> "activities", columns |-> <<"duration">>],
     [fmt |-> "Logged LDL Cholesterol: **{val} mg/dL**.",
      table |-> "cholesterol_readings", columns |-> <<"ldl">>],
     [fmt |-> "Logged Total Cholesterol: **{val} mg/dL**.",
      table |-> "cholesterol_readings", columns |-> <<"total_cholesterol">>]}

\* C20: when the reply of the assistant states that a reading was logged,
\* one record with the reported values was appended to the table of that
\* reading for the user during the step; when nothing was written, the
\* reply does not state that anything was logged.
C20_LoggedReplyMeansRecord ==
    \A kind \in LoggedReplies :
        chatOut.reply.fmt = kind.fmt =>
            LET old == chatOut.before[kind.table]
                new == pg[kind.table]
            IN  /\ Len(new) = Len(old) + 1
                /\ SubSeq(new, 1, Len(old)) = old
                /\ \E u \in StoreUsers : new[Len(new)].user_id = str(u)
                /\ \A k \in 1..Len(kind.columns) :
                      str(new[Len(new)][kind.columns[k]]) = chatOut.reply.args[k]

\* the integers of s that 'min' follows, white space apart: where each starts
\* and how long it is
MinuteNumbers(s) ==
    {m \in (1..Len(s)) \X (1..Len(s)) :
        /\ AllDigits(s, m[1], m[2])
        /\ m[1] = 1 \/ ~IsDigit(s[m[1] - 1])
        /\ \E j \in (m[1] + m[2])..Len(s) :
              /\ Blank(s, m[1] + m[2], j)
              /\ StartsAt(s, j, <<"m", "i", "n">>)}

\* the duration the claim names: the first such integer, or 30
ClaimedDuration(s) ==
    IF MinuteNumbers(s) = {} THEN 30
    ELSE LET m == CHOOSE x \in MinuteNumbers(s) : \A y \in MinuteNumbers(s) : x[1] <= y[1]
         IN  int(SubSeq(s, m[1], m[1] + m[2] - 1))

\* one Activity record of the claimed duration was appended and nothing else
LoggedExercise ==
    LET d == ClaimedDuration(lower(rtIn))
    IN  /\ Appended(chatOut.before["activities"], pg["activities"],
                    [activity_type |-> "Exercise", intensity |-> "Moderate",
                     duration |-> d, calories |-> 5 * d])
        /\ \E u \in StoreUsers : pg["activities"][Len(pg["activities"])].user_id = str(u)
        /\ \A t \in RecordTables \ {"activities"} : pg[t] = chatOut.before[t]

\* C21 as claimed: an input routed to the activity handler appends exactly
\* one Activity record of type "Exercise" and intensity "Moderate" whose
\* duration is the integer before 'min', or 30 without one, and whose
\* calories are 5 times the duration.
C21_ChatActivityAlwaysLogged ==
    chatOut.branch = "process_activity" => LoggedExercise

\* C21 as amended: when the PostgreSQL connection is obtained the record of
\* the claim is appended and the reply reports the duration; when it is not,
\* nothing is written and the reply is "Error logging activity.".  The
\* multipliers of save_activity are Light 3, Moderate 5, Vigorous 8, other 5.
C21_ChatActivityLogged ==
    /\ Mult("Light") = 3 /\ Mult("Moderate") = 5 /\ Mult("Vigorous") = 8
    /\ Mult("Exercise") = 5
    /\ chatOut.branch = "process_activity" =>
          IF chatOut.conn = "pg"
          THEN /\ LoggedExercise
               /\ chatOut.reply = Text("Logged **{duration} mins** of activity! Keep moving!",
                                       <<str(ClaimedDuration(lower(rtIn)))>>)
          ELSE /\ pg = chatOut.before
               /\ chatOut.reply = Text("Error logging activity.", <<>>)

\* 'Ran 45 minutes, 5 min rest' was logged as 45 minutes and 225 calories
C21_Witness ==
    /\ chatOut.branch = "process_activity"
    /\ rtIn = SayTwice
    /\ Len(pg["activities"]) > Len(chatOut.before["activities"])
    /\ pg["activities"][Len(pg["activities"])].duration = 45
    /\ pg["activities"][Len(pg["activities"])].calories = 225

\* where the digit runs of s start
NumberStarts(s) == {i \in 1..Len(s) : IsDigit(s[i]) /\ (i = 1 \/ ~IsDigit(s[i - 1]))}

\* the first integer in s, which holds a digit
FirstInteger(s) ==
    LET i == CHOOSE x \in NumberStarts(s) : \A y \in NumberStarts(s) : x <= y
        n == CHOOSE k \in 1..Len(s) :
                 AllDigits(s, i, k) /\ (i + k > Len(s) \/ ~IsDigit(s[i + k]))
    IN  int(SubSeq(s, i, i + n - 1))

\* one CholesterolReading of the first integer was appended and nothing else
StoredCholesterol ==
    LET val == FirstInteger(rtIn)
        asLdl == Contains(lower(rtIn), <<"l", "d", "l">>)
    IN  /\ Appended(chatOut.before["cholesterol_readings"], pg["cholesterol_readings"],
                    [ldl |-> IF asLdl THEN val ELSE None,
                     total_cholesterol |-> IF asLdl THEN None ELSE val])
        /\ \E u \in StoreUsers :
              pg["cholesterol_readings"][Len(pg["cholesterol_readings"])].user_id = str(u)
        /\ \A t \in RecordTables \ {"cholesterol_readings"} : pg[t] = chatOut.before[t]

\* C22: for an input routed to the cholesterol handler the first integer of
\* the input is stored as LDL, total cholesterol empty, when the input
\* mentions 'ldl', and as total cholesterol otherwise; without a digit
\* nothing is written and the reply asks for a number.
C22_ChatCholesterolStored ==
    chatOut.branch = "process_cholesterol" =>
        IF NumberStarts(rtIn) # {}
        THEN StoredCholesterol
        ELSE /\ pg = chatOut.before
             /\ chatOut.reply = Text("Please provide a number for your cholesterol.", <<>>)

\* the BP readings of user_id taken in the seven days before now
ReadingsOfLastWeek(user_id, now) ==
    SelectSeq(pg["blood_pressure"],
              LAMBDA r : r.user_id = str(user_id) /\ r.timestamp >= now - Week)

\* the weekly summary with the averages of these readings
WeeklySummary(rows) ==
    Text("**Weekly Summary:** Your average BP is **{s:.0f}/{d:.0f} mmHg**.",
         <<str(Format0f(SumOf(rows, "systolic"), Len(rows))),
           str(Format0f(SumOf(rows, "diastolic"), Len(rows)))>>)

\* C23: a status query leaves the tables as they were, and with the store
\* reachable it returns the weekly summary with the averages of the user's
\* systolic and diastolic readings of the last 7 days when there is at least
\* one such reading, and the "No data found" reply otherwise.
C23_StatusReadOnlySummary ==
    /\ chatOut.branch = "process_status_check" => pg = chatOut.before
    /\ \A reach \in Reach, u \in StoreUsers :
          get_connection(reach) = "pg" =>
              LET t == ensure_tables_exist(liteTables, pgTables, reach)
                  recent == ReadingsOfLastWeek(u, clock)
                  reply == process_user_input(pg, t.pgTables, reach, clock, SayHow, u).reply
              IN  IF Len(recent) > 0
                  THEN reply = WeeklySummary(recent)
                  ELSE reply = Text("No data found for the last 7 days. Start logging to see your summary!", <<>>)

\* the messages stored for user_id, in the order they are stored in
StoredFor(user_id) ==
    SelectSeq(pg["chat_history"], LAMBDA r : r.user_id = str(user_id))

\* rows are in ascending order of timestamp
Ascending(rows) ==
    \A i \in 1..Len(rows), j \in 1..Len(rows) :
        i < j => rows[i].timestamp < rows[j].timestamp

\* C24: load_chat_history returns the user's persisted messages oldest first
\* and at most 20 of them, the 20 earliest when more are stored; on a store
\* error the result is empty and the session starts with the one greeting.
C24_LoadChatHistory ==
    histOut.user_id # None =>
        LET mine == StoredFor(histOut.user_id)
            n == Len(histOut.loaded)
        IN  /\ Ascending(mine)
            /\ IF histOut.conn = "pg"
               THEN /\ n = IF Len(mine) > 20 THEN 20 ELSE Len(mine)
                    /\ \A i \in 1..n :
                          /\ histOut.loaded[i].role = mine[i].role
                          /\ histOut.loaded[i].content = mine[i].message
                    /\ \A i \in 1..Len(histOut.df) :
                          /\ histOut.df[i].role = mine[i].role
                          /\ histOut.df[i].message = mine[i].message
                    /\ Len(histOut.df) = n
               ELSE /\ n = 0
                    /\ histOut.chat_history = <<Greeting>>
            /\ n = 0 => histOut.chat_history = <<Greeting>>
            /\ n > 0 => histOut.chat_history = histOut.loaded

\* more than 20 messages of the user are stored, and 20 were loaded
C24_Witness ==
    /\ histOut.user_id = 1
    /\ histOut.conn = "pg"
    /\ Len(StoredFor(1)) > 20
    /\ Len(histOut.loaded) = 20
    /\ histOut.loaded[1].content = Typed(str(pg["chat_history"][1].id))

\* the outcomes of the classifier, a low risk among them
RiskOutcomes == ModelOutcomes \cup {[kind |-> "predicts", label |-> 0, percent |-> 12]}

RiskResults == {"High Risk Detected: {p}%", "Low Risk Detected: {p}%"}

\* the run of session s appended one PredictionRecord of the form and the result
PredictionLogged(s, r, vitals, model) ==
    /\ Appended(pg["predictions_history"], r.pg["predictions_history"],
                [user_id |-> str(session[s].user_id), age |-> vitals[1],
                 cholesterol |-> vitals[2], resting_bp_s |-> vitals[3],
                 predicted_target |-> model.label, probability |-> model.percent])
    /\ \A t \in RecordTables \ {"predictions_history"} : r.pg[t] = pg[t]
    /\ r.lite = lite

\* C25 as claimed: when the Risk Assessment page shows a High Risk or Low Risk
\* result for a submitted form, exactly one PredictionRecord with the
\* session's user_id, the entered age, cholesterol and resting BP, and the
\* label and probability shown was appended before.
C25_ShownResultAlwaysPersisted ==
    \A s \in Sessions, reach \in Reach, vitals \in Vitals, model \in RiskOutcomes :
        \A r \in {RiskAssessmentRun(s, reach, TRUE, vitals, model)} :
            r.shown \in RiskResults => PredictionLogged(s, r, vitals, model)

\* C25 as amended: a result is shown exactly for a submitted form on which
\* the classifier predicts, High Risk for label 1 and Low Risk otherwise,
\* after log_prediction_to_db was called; the record of the claim was
\* appended when the PostgreSQL connection was obtained, and no record was
\* written when it was not.
C25_ShownResultLogged ==
    \A s \in Sessions, reach \in Reach, vitals \in Vitals, model \in RiskOutcomes :
        \A r \in {RiskAssessmentRun(s, reach, TRUE, vitals, model)} :
            /\ r.shown \in RiskResults <=> LoggedIn(session[s]) /\ model.kind = "predicts"
            /\ r.shown \in RiskResults =>
                  /\ r.shown = "High Risk Detected: {p}%" <=> model.label = 1
                  /\ r.ret = <<model.label, model.percent>>
                  /\ Called(r, "log_prediction_to_db")
                  /\ IF get_connection(reach) = "pg"
                     THEN PredictionLogged(s, r, vitals, model)
                     ELSE r.pg = pg /\ r.lite = lite
            /\ r.shown \notin RiskResults => r.pg = pg /\ r.lite = lite

\* a result was shown to a logged-in session and its record is stored
C25_Witness ==
    \E s \in Sessions :
        /\ LoggedIn(session[s])
        /\ \E k \in 1..Len(pg["predictions_history"]) :
              /\ pg["predictions_history"][k].user_id = str(session[s].user_id)
              /\ pg["predictions_history"][k].predicted_target = 1
              /\ pg["predictions_history"][k].probability = 75

\* the tables init_db creates
InitDbTables == RecordTables \cup {"users"}

\* init_db applied to any set of existing tables, once or again under any
\* reachability, keeps the tables there are and adds only missing ones of
\* its six, all of them when the SQLite file can be opened
InitDbIdempotent ==
    \A tables \in SUBSET InitDbTables, r1 \in Reach, r2 \in Reach :
        LET once == init_db(tables, r1)
        IN  /\ tables \subseteq once
            /\ once \subseteq tables \cup InitDbTables
            /\ r1.lite => once = tables \cup InitDbTables
            /\ ~r1.lite => once = tables
            /\ init_db(once, r1) = once
            /\ once \subseteq init_db(once, r2)

\* a run of app.py calls init_db first and leaves every table and every
\* record of the state it starts in where it is
InitDbKeepsAll(s) ==
    LET kept(run) ==
          \A r \in {run} :
             /\ Len(r.calls) > 0 /\ r.calls[1] = "init_db"
             /\ liteTables \subseteq r.liteTables
             /\ r.liteTables \subseteq liteTables \cup InitDbTables
             /\ r.pgTables = pgTables
             /\ r.lite = lite /\ r.pg = pg
             /\ IsPrefix(users, r.users)
    IN  /\ ForAllAppRuns(s, kept)
        /\ \A reach \in Reach :
              \A r \in {AppViewRun(s, reach)} :
                 /\ r.users = users
                 /\ r.liteTables = init_db(liteTables, reach)

RefusalsShown == {"ImportError", "Please log in first!",
                  "User session expired. Please log in again."}

=============================================================================
